---- MODULE Spec2Model ----
(***************************************************************************)
(* agent-automata: the agent builder (load_automaton), the orchestration   *)
(* loop (run_core_automaton), the leaf runner (run_builtin_function), the  *)
(* session wrapper (add_session_handling / save_event) and the memoised    *)
(* capability loaders (engines, planners, reflectors, knowledge,           *)
(* validators).                                                            *)
(*                                                                         *)
(* One asyncio task: the call chain host -> wrapper -> runner -> wrapper   *)
(* -> ... is the sequence `stack`, innermost run last.  Every await of the *)
(* code is a step boundary; synchronous code between two awaits is one     *)
(* action.                                                                 *)
(***************************************************************************)
EXTENDS Integers, Sequences, FiniteSets, TLC

\* ------------------------------------------------------------------ bounds
MaxClock == 1
MaxRuns == 3
MaxInterrupts == 1

\* ------------------------------------------------- optional values (None)
\* Python's None is the empty sequence, a present value v is <<v>>.
None == << >>
Some(v) == <<v>>
IsNone(o) == o = << >>

\* ------------------------------------------------------- definition store
\* The spec.yml files under automata_location.  Two stores are explored:
\* in "custom" the composite agent A wires every capability, the leaf think
\* wires a validator and write_file is a custom runner; in "builtin" A wires only a planner and write_file is
\* declared with builtin_function_runner, a name load_builtin_function does
\* not know.
Worlds == {"custom", "builtin"}

\* Five more stores, explored by SpecStores:
\*   "react"            A wires the builtin react planner with an engine
\*   "unknown_planner"  A wires the planner name "nonexistent_planner"
\*   "no_finalize"      A declares think and write_file but not finalize;
\*                      write_file is a custom runner that wires an input
\*                      and an output validator
\*   "no_think"         A wires react and declares write_file and finalize
\*                      but not think
\*   "guarded_finalize" A declares think and finalize; finalize wires an
\*                      input validator
StoreWorlds == {"react", "unknown_planner", "no_finalize", "no_think", "guarded_finalize"}

Location == "demo_automata"
HostIds == {"human_tester"}
\* a second requester identity, used by SpecEdges only
OtherHostIds == {"reviewer"}
TopIds == {"A"}
Request == "do X"
\* what a custom planner may return: (sub-automaton id, request)
Plans == {<<"think", "save X">>, <<"write_file", "save X">>, <<"finalize", "saved">>}
PlanText == "plan"
ReflectionLines == <<"r1">>
ValidatorMessage == "invalid request"
CustomResults == {"saved"}

\* names that end in ".py" (str.endswith on the names the stores use)
PyNames == {"runner.py", "planner.py", "reflector.py", "validator.py", "knowledge.py", "engine.py"}
EndsWithPy(name) == name \in PyNames

Wiring(name, engine) == Some([name |-> name, engine |-> engine])

Leaf(name, runner) ==
  [name |-> name, runner |-> runner, sub_automata |-> << >>,
   validator |-> None, output_validator |-> None,
   knowledge |-> None, reflector |-> None, planner |-> None]

automaton_yaml(w, id) ==
  CASE id = "A" /\ w = "custom" ->
         [name |-> "Agent A", runner |-> "core_automaton_runner",
          sub_automata |-> <<"think", "write_file", "finalize">>,
          validator |-> Wiring("validator.py", Some("gpt-4")),
          output_validator |-> None,
          knowledge |-> Wiring("knowledge.py", Some("gpt-4")),
          reflector |-> Wiring("reflector.py", Some("gpt-4")),
          planner |-> Wiring("planner.py", Some("gpt-4"))]
    [] id = "A" /\ w = "builtin" ->
         [name |-> "Agent A", runner |-> "core_automaton_runner",
          sub_automata |-> <<"think", "write_file", "finalize">>,
          validator |-> None, output_validator |-> None,
          knowledge |-> None, reflector |-> None,
          planner |-> Wiring("planner.py", None)]
    [] id = "A" /\ w = "react" ->
         [name |-> "Agent A", runner |-> "core_automaton_runner",
          sub_automata |-> <<"think", "finalize">>,
          validator |-> None, output_validator |-> None,
          knowledge |-> None, reflector |-> None,
          planner |-> Wiring("react", Some("gpt-4"))]
    [] id = "A" /\ w = "unknown_planner" ->
         [name |-> "Agent A", runner |-> "core_automaton_runner",
          sub_automata |-> <<"think", "finalize">>,
          validator |-> None, output_validator |-> None,
          knowledge |-> None, reflector |-> None,
          planner |-> Wiring("nonexistent_planner", Some("gpt-4"))]
    [] id = "A" /\ w = "no_finalize" ->
         [name |-> "Agent A", runner |-> "core_automaton_runner",
          sub_automata |-> <<"think", "write_file">>,
          validator |-> None, output_validator |-> None,
          knowledge |-> None, reflector |-> None,
          planner |-> Wiring("planner.py", None)]
    [] id = "A" /\ w = "no_think" ->
         [name |-> "Agent A", runner |-> "core_automaton_runner",
          sub_automata |-> <<"write_file", "finalize">>,
          validator |-> None, output_validator |-> None,
          knowledge |-> None, reflector |-> None,
          planner |-> Wiring("react", Some("gpt-4"))]
    [] id = "A" /\ w = "guarded_finalize" ->
         [name |-> "Agent A", runner |-> "core_automaton_runner",
          sub_automata |-> <<"think", "finalize">>,
          validator |-> None, output_validator |-> None,
          knowledge |-> None, reflector |-> None,
          planner |-> Wiring("planner.py", None)]
    [] id = "think" /\ w = "custom" ->
         [Leaf("Think", "builtin_function_runner") EXCEPT
            !.validator = Wiring("validator.py", Some("gpt-4"))]
    [] id = "think" /\ w # "custom" -> Leaf("Think", "builtin_function_runner")
    [] id = "finalize" /\ w = "guarded_finalize" ->
         [Leaf("Finalize Reply", "builtin_function_runner") EXCEPT
            !.validator = Wiring("validator.py", Some("gpt-4"))]
    [] id = "finalize" /\ w # "guarded_finalize" ->
         Leaf("Finalize Reply", "builtin_function_runner")
    [] id = "write_file" /\ w = "builtin" -> Leaf("Write File", "builtin_function_runner")
    [] id = "write_file" /\ w = "no_finalize" ->
         [Leaf("Write File", "runner.py") EXCEPT
            !.validator = Wiring("validator.py", Some("gpt-4")),
            !.output_validator = Wiring("validator.py", Some("gpt-4"))]
    [] id = "write_file" /\ w \notin {"builtin", "no_finalize"} -> Leaf("Write File", "runner.py")

\* the results the output validator of the stores (output.validator:
\* validator.py) reports invalid
RejectedOutputs == {"saved"}

Range(s) == {s[i] : i \in 1..Len(s)}

\* ---------------------------------------------------------------- clock
\* generate_timestamp_id(): datetime.utcnow() formatted "%Y-%m-%d_%H%M-%S-%f".
\* The format is one-to-one on the microsecond reading, so an id is the
\* reading itself; two calls within one clock reading return the same id.
generate_timestamp_id(now) == now

\* scripts/demo.py: the host takes its session id before it builds anything
HostSession == generate_timestamp_id(0)

\* the readings a call of datetime.utcnow() can give when the last reading
\* taken was t: the clock has stood still or has advanced
Readings(t) == {u \in {t, t + 1} : u <= MaxClock}

\* bound on the capability objects the resolver harness lets the factories build
MaxObjects == 3

\* bound on the calls of a cached loader the race harness follows
MaxCallers == 3

\* ------------------------------------------------- capability resolution
\* The five lru_cache(maxsize=None) caches and the count of capability
\* objects the factories have returned travel together as one record c:
\* [engines, planners, reflectors, knowledges, validators, nobj].
\* A loader returns [c, val, err]: the caches after the call, the value
\* returned (None or Some(instance)) and the exception raised, if any.
BUILTIN_ENGINES == {"gpt-3.5-turbo", "gpt-4"}
BUILTIN_PLANNERS == {"react"}
BUILTIN_REFLECTORS == {}
BUILTIN_KNOWLEDGE == {}
BUILTIN_VALIDATORS == {}

Ok(c, val) == [c |-> c, val |-> val, err |-> None]
Raise(c, e) == [c |-> c, val |-> None, err |-> Some(e)]

\* a factory returned a new object
Construct(c, kind, name, engine) ==
  Ok([c EXCEPT !.nobj = @ + 1],
     Some([obj |-> c.nobj + 1, kind |-> kind, name |-> name, engine |-> engine]))

\* quick_import(automaton_path / name).load(...): the module of a wired
\* ".py" name exists in both stores.
quick_import_load(c, kind, name, engine) == Construct(c, kind, name, engine)

load_builtin_engine(c, name) ==
  IF name \in {"gpt-3.5-turbo", "gpt-4"}
    THEN Construct(c, "engine", name, None)
    ELSE Raise(c, "ValueError: Engine not part of builtin engines")

_load_engine_uncached(c, automaton_path, name) ==
  IF IsNone(name) THEN Ok(c, None)
  ELSE IF EndsWithPy(name[1]) THEN quick_import_load(c, "engine", name[1], None)
  ELSE load_builtin_engine(c, name[1])

\* lru_cache keeping an outcome whatever it is: after an exception the key
\* holds the empty result
Memoize_KeepsFailure(c, cache, key, r) ==
  [r EXCEPT !.c[cache] = (key :> r.val) @@ @]

\* the store of lru_cache giving up on a key another caller has stored
\* meanwhile: the entry is removed
Memoize_DropOnConflict(c, cache, key, r) ==
  IF ~IsNone(r.err) THEN r
  ELSE IF key \in DOMAIN r.c[cache]
    THEN [r EXCEPT !.c[cache] = [k \in DOMAIN @ \ {key} |-> @[k]]]
    ELSE [r EXCEPT !.c[cache] = (key :> r.val) @@ @]

\* lru_cache: keep what the wrapped function returned; an exception stores
\* nothing.  c is the caches before the call, r the wrapped call's outcome.
Memoize(c, cache, key, r) ==
  IF IsNone(r.err)
    THEN [r EXCEPT !.c[cache] = (key :> r.val) @@ @]
    ELSE r

\* _load_engine without its lru_cache: every call runs the body
_load_engine_NoCache(c, automaton_path, name) ==
  _load_engine_uncached(c, automaton_path, name)

_load_engine(c, automaton_path, name) ==
  IF <<automaton_path, name>> \in DOMAIN c.engines
    THEN Ok(c, c.engines[<<automaton_path, name>>])
    ELSE Memoize(c, "engines", <<automaton_path, name>>,
                 _load_engine_uncached(c, automaton_path, name))

load_engine(c, automaton_path, name) == _load_engine(c, automaton_path, name)

load_builtin_planner(c, name, engine) ==
  IF name = "react"
    THEN IF IsNone(engine)
           THEN Raise(c, "ValueError: Engine must be specified for builtin planner")
           ELSE Construct(c, "planner", name, engine)
    ELSE Raise(c, "ValueError: Planner not part of builtin planners")

\* the body of _load_planner once load_engine has given e
_load_planner_with(e, name) ==
  IF ~IsNone(e.err) THEN e
  ELSE IF EndsWithPy(name) THEN quick_import_load(e.c, "planner", name, e.val)
  ELSE load_builtin_planner(e.c, name, e.val)

_load_planner(c, automaton_path, name, engine_name) ==
  IF <<automaton_path, name, engine_name>> \in DOMAIN c.planners
    THEN Ok(c, c.planners[<<automaton_path, name, engine_name>>])
    ELSE Memoize(c, "planners", <<automaton_path, name, engine_name>>,
                 _load_planner_with(load_engine(c, automaton_path, engine_name), name))

load_planner(c, automaton_path, data) ==
  _load_planner(c, automaton_path, data[1].name, data[1].engine)

load_builtin_reflector(c, name, engine) == Raise(c, "NotImplementedError")

_load_reflector_with(e, name) ==
  IF ~IsNone(e.err) THEN e
  ELSE IF EndsWithPy(name) THEN quick_import_load(e.c, "reflector", name, e.val)
  ELSE load_builtin_reflector(e.c, name, e.val)

_load_reflector(c, automaton_path, name, engine_name) ==
  IF <<automaton_path, name, engine_name>> \in DOMAIN c.reflectors
    THEN Ok(c, c.reflectors[<<automaton_path, name, engine_name>>])
    ELSE Memoize(c, "reflectors", <<automaton_path, name, engine_name>>,
                 _load_reflector_with(load_engine(c, automaton_path, engine_name), name))

\* load_reflector with a default reflector resolved for an absent wiring
load_reflector_DefaultForNone(c, automaton_path, data) ==
  IF IsNone(data) THEN _load_reflector(c, automaton_path, "reflector.py", None)
  ELSE _load_reflector(c, automaton_path, data[1].name, data[1].engine)

load_reflector(c, automaton_path, data) ==
  IF IsNone(data) THEN Ok(c, None)
  ELSE _load_reflector(c, automaton_path, data[1].name, data[1].engine)

load_builtin_knowledge(c, name, engine) ==
  Raise(c, "ValueError: Knowledge base not part of builtin knowledge bases")

_load_knowledge_with(e, name) ==
  IF ~IsNone(e.err) THEN e
  ELSE IF EndsWithPy(name) THEN quick_import_load(e.c, "knowledge", name, e.val)
  ELSE load_builtin_knowledge(e.c, name, e.val)

_load_knowledge(c, automaton_path, name, engine_name) ==
  IF <<automaton_path, name, engine_name>> \in DOMAIN c.knowledges
    THEN Ok(c, c.knowledges[<<automaton_path, name, engine_name>>])
    ELSE Memoize(c, "knowledges", <<automaton_path, name, engine_name>>,
                 _load_knowledge_with(load_engine(c, automaton_path, engine_name), name))

load_knowledge(c, automaton_path, data) ==
  IF IsNone(data) THEN Ok(c, None)
  ELSE _load_knowledge(c, automaton_path, data[1].name, data[1].engine)

load_builtin_validator(c, name, engine) ==
  Raise(c, "ValueError: Validator not part of builtin validators")

_load_validator_with(e, automaton_path, name) ==
  IF ~IsNone(e.err) THEN e
  ELSE IF EndsWithPy(name) THEN quick_import_load(e.c, "validator", name, e.val)
  ELSE IF IsNone(e.val) THEN Raise(e.c, "ValueError: Must specify engine for validator")
  ELSE IF name \in BUILTIN_VALIDATORS THEN load_builtin_validator(e.c, name, e.val)
  ELSE Raise(e.c, "ValueError: Validator not found")

\* requirements and objectives are fixed by the definition at automaton_path,
\* so the cache key's last two components are a function of the first.
_load_validator(c, automaton_path, name, engine_name) ==
  IF <<automaton_path, name, engine_name>> \in DOMAIN c.validators
    THEN Ok(c, c.validators[<<automaton_path, name, engine_name>>])
    ELSE Memoize(c, "validators", <<automaton_path, name, engine_name>>,
                 _load_validator_with(load_engine(c, automaton_path, engine_name),
                                      automaton_path, name))

load_validator(c, automaton_path, data) ==
  IF IsNone(data) THEN Ok(c, None)
  ELSE _load_validator(c, automaton_path, data[1].name, data[1].engine)

\* ------------------------------------------------------------------ state
VARIABLES
  world,         \* which definition store is on disk
  clock,         \* the UTC clock's current microsecond reading
  caps,          \* the capability caches (record c above)
  data_cache,    \* _load_automaton_data's cache: the paths read so far
  automata,      \* _load_automaton's cache: key -> Automaton
  nautomata,     \* Automaton objects constructed so far
  log,           \* event_log files: <<automaton_id, session_id>> -> lines
  stack,         \* the runs in progress, innermost last
  nruns,         \* wrapper invocations so far
  ninterrupts,   \* KeyboardInterrupts delivered so far
  completed,     \* the runs whose wrapper has returned
  host_result,   \* what the host's last call gave: a result or an exception
  suspended,     \* the runs of a second task of the event loop, waiting
                 \* at an await while the task of stack runs
  racers         \* calls of a cached loader made from several host threads

vars == <<world, clock, caps, data_cache, automata, nautomata,
          log, stack, nruns, ninterrupts, completed, host_result, suspended,
          racers>>

\* ----------------------------------------------------------- definitions
\* load_automaton_data / _load_automaton_data: memoised read of spec.yml.
\* The decorator is a bare lru_cache, whose maxsize is 128: the cache is the
\* paths it holds, least recently used first.  A hit makes the path the most
\* recently used; a miss reads spec.yml and adds the path, and in a full
\* cache the least recently used path makes room for it.
LruMaxSize == 128

Without(cache, automaton_path) == SelectSeq(cache, LAMBDA p : p # automaton_path)

_load_automaton_data(cache, automaton_path) ==
  IF \E i \in 1..Len(cache) : cache[i] = automaton_path
    THEN Append(Without(cache, automaton_path), automaton_path)
  ELSE IF Len(cache) < LruMaxSize THEN Append(cache, automaton_path)
  ELSE Append(Tail(cache), automaton_path)

load_automaton_data(cache, automaton_path) == _load_automaton_data(cache, automaton_path)

\* run_core_automaton lines 77-80: the definitions of the declared
\* sub-automata are loaded in the order of their declaration
RECURSIVE sub_automata_data(_, _, _)
sub_automata_data(cache, automata_location, sub_automata) ==
  IF sub_automata = << >> THEN cache
  ELSE sub_automata_data(load_automaton_data(cache, <<automata_location, Head(sub_automata)>>),
                         automata_location, Tail(sub_automata))

\* ---------------------------------------------------------- agent builder
\* The builder's state is b = [automata, caps, data_cache, nautomata]; a
\* build returns [b, val, err] like the capability loaders.
AutomatonKey(automaton_id, requester_session_id, requester_id, automata_location) ==
  <<automaton_id, requester_session_id, requester_id, automata_location>>

RunnerKinds == {"builtin_function_runner", "core_automaton_runner"}

\* the body of _load_automaton from line 53 on, once load_validator has
\* given v: the runner dispatch, add_session_handling, Automaton(...)
_load_automaton_with(b, v, self_session_id, automaton_data, automaton_id, requester_session_id, requester_id) ==
  IF ~IsNone(v.err) THEN [b |-> [b EXCEPT !.caps = v.c], val |-> None, err |-> v.err]
  ELSE IF ~EndsWithPy(automaton_data.runner) /\ automaton_data.runner \notin RunnerKinds
    THEN [b |-> [b EXCEPT !.caps = v.c], val |-> None,
          err |-> Some("ValueError: Invalid runner name")]
  ELSE
    [b |-> [b EXCEPT !.caps = v.c, !.nautomata = @ + 1],
     val |-> Some([obj |-> b.nautomata + 1,
                   id |-> automaton_id,
                   name |-> automaton_data.name,
                   runner |-> IF EndsWithPy(automaton_data.runner)
                                THEN "custom" ELSE automaton_data.runner,
                   session_id |-> self_session_id,
                   validate_input |-> v.val,
                   requester_id |-> requester_id,
                   requester_session_id |-> requester_session_id]),
     err |-> None]

\* the body of _load_automaton, run on a cache miss
_load_automaton_uncached(b, now, w, automaton_id, requester_session_id, requester_id, automata_location) ==
  _load_automaton_with(
    [b EXCEPT !.data_cache = load_automaton_data(@, <<automata_location, automaton_id>>)],
    load_validator(b.caps, <<automata_location, automaton_id>>,
                   automaton_yaml(w, automaton_id).validator),
    generate_timestamp_id(now), automaton_yaml(w, automaton_id), automaton_id,
    requester_session_id, requester_id)

\* lru_cache keeping the instances the host asked for and no other: every
\* delegation of a loop builds its sub-automaton anew
MemoizeAutomaton_HostOnly(key, r) ==
  IF IsNone(r.err) /\ key[3] \in HostIds \cup OtherHostIds
    THEN [r EXCEPT !.b.automata = (key :> r.val[1]) @@ @]
    ELSE r

\* lru_cache on _load_automaton
MemoizeAutomaton(key, r) ==
  IF IsNone(r.err)
    THEN [r EXCEPT !.b.automata = (key :> r.val[1]) @@ @]
    ELSE r

\* _load_automaton without its lru_cache: every call runs the body and the
\* handle kept for the key is the latest instance
_load_automaton_NoCache(b, now, w, automaton_id, requester_session_id, requester_id, automata_location) ==
  MemoizeAutomaton(
    AutomatonKey(automaton_id, requester_session_id, requester_id, automata_location),
    _load_automaton_uncached(b, now, w, automaton_id, requester_session_id,
                             requester_id, automata_location))

_load_automaton(b, now, w, automaton_id, requester_session_id, requester_id, automata_location) ==
  IF AutomatonKey(automaton_id, requester_session_id, requester_id, automata_location)
       \in DOMAIN b.automata
    THEN [b |-> b,
          val |-> Some(b.automata[AutomatonKey(automaton_id, requester_session_id,
                                               requester_id, automata_location)]),
          err |-> None]
    ELSE MemoizeAutomaton(
           AutomatonKey(automaton_id, requester_session_id, requester_id, automata_location),
           _load_automaton_uncached(b, now, w, automaton_id, requester_session_id,
                                    requester_id, automata_location))

load_automaton(b, now, w, automaton_id, requester_session_id, requester_id, automata_location) ==
  _load_automaton(b, now, w, automaton_id, requester_session_id, requester_id, automata_location)

Builder == [automata |-> automata, caps |-> caps, data_cache |-> data_cache,
            nautomata |-> nautomata]

SetBuilder(b) ==
  /\ automata' = b.automata
  /\ caps' = b.caps
  /\ data_cache' = b.data_cache
  /\ nautomata' = b.nautomata

\* --------------------------------------------------------- session recorder
\* save_event with the file opened for writing instead of appending
save_event_Overwrite(logs, line, automaton_id, session_id) ==
  LET log_path == <<automaton_id, session_id>> IN
  (log_path :> <<line>>) @@ logs

\* save_event writing only to a log that exists already
save_event_NoCreate(logs, line, automaton_id, session_id) ==
  LET log_path == <<automaton_id, session_id>> IN
  IF log_path \in DOMAIN logs
    THEN [logs EXCEPT ![log_path] = Append(@, line)]
    ELSE logs

\* save_event: append one line to <location>/<automaton_id>/event_log/
\* <session_id>.jsonl, creating the file when it is absent.  A line is the
\* event plus the wrapper invocation that wrote it.
save_event(logs, line, automaton_id, session_id) ==
  LET log_path == <<automaton_id, session_id>> IN
  IF log_path \in DOMAIN logs
    THEN [logs EXCEPT ![log_path] = Append(@, line)]
    ELSE (log_path :> <<line>>) @@ logs

StandIn(automaton_name) ==
  "Sub-automaton " \o automaton_name \o " took too long to process and was manually stopped."

\* ------------------------------------------------------------------ frames
\* One frame per wrapper invocation: the wrapper's and the runner's locals.
\*   pc "run"       wrapper line 35, the runner has not run a statement yet
\*      "load"      run_core_automaton line 70
\*      "reflect"   line 84     "plan"  line 87     "delegate"  line 91
\*      "await"     line 97, the sub-automaton's run is in progress
\*      "record"    line 98, the sub-automaton's run has returned
\*      "function"  run_builtin_function line 113
\*      "save_own"  wrapper line 43     "save_req"  wrapper line 51
NoAction == [automaton_id |-> "", request |-> ""]

\* own_log_start is the length of the automaton's own log when the wrapper
\* was entered; nreflect, nplan and nbuild count the reflector calls, the
\* planner calls and the sub-automaton builds of this run; validated tells
\* that validate_input has been called on the request; completion is the
\* engine completion the react planner last worked on.
LogLen(logs, log_path) == IF log_path \in DOMAIN logs THEN Len(logs[log_path]) ELSE 0

NewFrame(automaton, request, run) ==
  [run |-> run, automaton |-> automaton, request |-> request, pc |-> "run",
   own_log_start |-> LogLen(log, <<automaton.id, automaton.session_id>>),
   result |-> "", event |-> None,
   knowledge |-> None, reflect |-> None, plan |-> None,
   steps_taken |-> << >>, reflection |-> None,
   planned_action |-> NoAction, action_text |-> "",
   validated |-> FALSE, invalid |-> FALSE, interrupted |-> FALSE,
   nreflect |-> 0, nplan |-> 0, nbuild |-> 0, completion |-> None]

RunnerPcs == {"run", "load", "reflect", "plan", "delegate", "await", "record", "function"}

Top == stack[Len(stack)]
SetTop(f) == [stack EXCEPT ![Len(stack)] = f]
Running == stack # << >>

\* Unwind with a wrapper whose except clause catches every exception: the
\* run that raised ends with the stand-in text and records its event
Unwind_CaughtByWrapper(e) ==
  /\ stack' = SetTop([Top EXCEPT !.result = StandIn(Top.automaton.name),
                                 !.interrupted = TRUE, !.pc = "save_own"])
  /\ UNCHANGED host_result

\* an exception other than KeyboardInterrupt leaves every enclosing wrapper
Unwind(e) ==
  /\ stack' = << >>
  /\ host_result' = [kind |-> "raised", value |-> e]

\* ------------------------------------------------------------ leaf runners
\* load_builtin_function(automaton_id, ...) followed by run(request):
\* [val, err].  No definition of the stores gives extra_args, and no request
\* of the model is the JSON save_text_to_workspace parses.
JsonRequests == {}

load_builtin_function(automaton_id, automaton_name, request) ==
  CASE automaton_id = "llm_assistant" ->
         [val |-> "", err |-> Some("ValueError: requires the engine value in extra_args")]
    [] automaton_id = "save_text" ->
         [val |-> IF request \in JsonRequests
                    THEN automaton_name \o ": saved file"
                    ELSE "Could not parse input.",
          err |-> None]
    [] automaton_id = "think" -> [val |-> request, err |-> None]
    [] automaton_id = "finalize" -> [val |-> request, err |-> None]
    [] OTHER -> [val |-> "", err |-> Some("NotImplementedError: Unsupported function name")]

\* ------------------------------------------------------- builtin planner
\* What the engine's completion is to parse_result: text the action regex
\* does not match, or text whose groups give a sub-automaton name and an
\* input.  "Bogus" is the display name of no automaton of any store.
ReactResults ==
  {[matched |-> FALSE, name |-> "", input |-> ""],
   [matched |-> TRUE, name |-> "Think", input |-> "save X"],
   [matched |-> TRUE, name |-> "Finalize Reply", input |-> "saved"],
   [matched |-> TRUE, name |-> "Bogus", input |-> "save X"]}

FormatMessage == "I must output the following: the Sub-Automaton Name, the Input Requirements, the Sub-Automaton Input"

\* parse_result lines 64-78: <<name, request>>
parse_result(result) ==
  IF ~result.matched
    THEN <<"Think", FormatMessage>>
    ELSE <<result.name, result.input>>

\* sub_automata_names (line 96) as the f-string of line 162 prints the list:
\* each display name in double quotes, each item in single quotes, in
\* declaration order
RECURSIVE JoinNames(_, _)
JoinNames(w, sub_automata) ==
  IF sub_automata = << >> THEN ""
  ELSE "'\"" \o automaton_yaml(w, Head(sub_automata)).name \o "\"'" \o
       (IF Len(sub_automata) = 1 THEN "" ELSE ", ") \o JoinNames(w, Tail(sub_automata))

NamesMessage(w, sub_automata) ==
  "The Sub-Automaton Name must be one of the following: [" \o JoinNames(w, sub_automata) \o "]"

\* react_planner with the StopIteration of lines 150-156 left uncaught
react_planner_NoFallback(w, sub_automata, result) ==
  IF "think" \notin Range(sub_automata)
    THEN [action |-> NoAction,
          err |-> Some("ValueError: The ReAct planner requires a sub-automaton named think")]
  ELSE IF \A i \in 1..Len(sub_automata) :
            automaton_yaml(w, sub_automata[i]).name # parse_result(result)[1]
    THEN [action |-> NoAction, err |-> Some("StopIteration")]
  ELSE [action |-> [automaton_id |->
                      sub_automata[CHOOSE i \in 1..Len(sub_automata) :
                        automaton_yaml(w, sub_automata[i]).name = parse_result(result)[1]],
                    request |-> parse_result(result)[2]],
        err |-> None]

\* react_planner without the check of lines 91-94
react_planner_NoThinkCheck(w, sub_automata, result) ==
  IF \A i \in 1..Len(sub_automata) :
       automaton_yaml(w, sub_automata[i]).name # parse_result(result)[1]
    THEN [action |-> [automaton_id |-> "think",
                      request |-> NamesMessage(w, sub_automata)],
          err |-> None]
  ELSE [action |-> [automaton_id |->
                      sub_automata[CHOOSE i \in 1..Len(sub_automata) :
                        /\ automaton_yaml(w, sub_automata[i]).name = parse_result(result)[1]
                        /\ \A j \in 1..(i - 1) :
                             automaton_yaml(w, sub_automata[j]).name # parse_result(result)[1]],
                    request |-> parse_result(result)[2]],
        err |-> None]

\* react_planner lines 91-94 and 150-166, given the parsed completion:
\* [action, err]
react_planner(w, sub_automata, result) ==
  IF "think" \notin Range(sub_automata)
    THEN [action |-> NoAction,
          err |-> Some("ValueError: The ReAct planner requires a sub-automaton named think")]
  ELSE IF \A i \in 1..Len(sub_automata) :
            automaton_yaml(w, sub_automata[i]).name # parse_result(result)[1]
    THEN [action |-> [automaton_id |-> "think",
                      request |-> NamesMessage(w, sub_automata)],
          err |-> None]
  ELSE [action |-> [automaton_id |->
                      sub_automata[CHOOSE i \in 1..Len(sub_automata) :
                        /\ automaton_yaml(w, sub_automata[i]).name = parse_result(result)[1]
                        /\ \A j \in 1..(i - 1) :
                             automaton_yaml(w, sub_automata[j]).name # parse_result(result)[1]],
                    request |-> parse_result(result)[2]],
        err |-> None]

\* ------------------------------------------------------------------- host
\* process start: nothing loaded, nothing logged, nothing running
InitProcess ==
  /\ clock = 0
  /\ caps = [engines |-> << >>, planners |-> << >>, reflectors |-> << >>,
             knowledges |-> << >>, validators |-> << >>, nobj |-> 0]
  /\ data_cache = << >>
  /\ automata = << >>
  /\ nautomata = 0
  /\ log = << >>
  /\ stack = << >>
  /\ nruns = 0
  /\ ninterrupts = 0
  /\ completed = {}
  /\ host_result = [kind |-> "none", value |-> ""]
  /\ suspended = << >>
  /\ racers = << >>

Init == world \in Worlds /\ InitProcess

\* scripts/demo.py: load_automaton(id, requester_session_id=session_id,
\* requester_id="human_tester", automata_location=...)
HostLoad(automaton_id, requester_id, now) ==
  /\ ~Running
  /\ LET key == AutomatonKey(automaton_id, HostSession, requester_id, Location)
         r == load_automaton(Builder, now, world, automaton_id, HostSession,
                             requester_id, Location) IN
       /\ SetBuilder(r.b)
       /\ clock' = IF key \in DOMAIN automata THEN clock ELSE now
       /\ host_result' = IF IsNone(r.err) THEN [kind |-> "loaded", value |-> ""]
                         ELSE [kind |-> "raised", value |-> r.err[1]]
  /\ UNCHANGED <<world, suspended, racers, log, stack, nruns, ninterrupts, completed>>

\* scripts/demo.py: await automaton.run(request), on a handle the host holds
HostRun(key) ==
  /\ ~Running
  /\ nruns < MaxRuns
  /\ key \in DOMAIN automata
  /\ key[3] \in HostIds \cup OtherHostIds
  /\ stack' = <<NewFrame(automata[key], Request, nruns + 1)>>
  /\ nruns' = nruns + 1
  /\ host_result' = [kind |-> "running", value |-> ""]
  /\ UNCHANGED <<world, suspended, racers, clock, caps, data_cache, automata, nautomata,
                 log, ninterrupts, completed>>

\* CoreValidate with the validator's verdict ignored: an invalid request
\* goes on into the loop
CoreValidate_IgnoresVerdict ==
  /\ Running
  /\ Top.pc = "run"
  /\ Top.automaton.runner = "core_automaton_runner"
  /\ \/ /\ ~IsNone(Top.automaton.validate_input)
        /\ stack' = SetTop([Top EXCEPT !.validated = TRUE, !.invalid = TRUE, !.pc = "load"])
     \/ stack' = SetTop([Top EXCEPT
                                  !.validated = ~IsNone(Top.automaton.validate_input),
                                  !.pc = "load"])
  /\ UNCHANGED <<world, suspended, racers, clock, caps, data_cache, automata, nautomata,
                 log, nruns, ninterrupts, completed, host_result>>

\* ------------------------------------------------------ orchestration loop
\* run_core_automaton lines 60-68: the sub-automaton check and input validation
CoreValidate ==
  /\ Running
  /\ Top.pc = "run"
  /\ Top.automaton.runner = "core_automaton_runner"
  /\ LET sub_automata == automaton_yaml(world, Top.automaton.id).sub_automata IN
     IF "think" \notin Range(sub_automata)
       THEN /\ Unwind("ValueError: must have a finalize sub-automaton defined")
            /\ UNCHANGED completed
       ELSE /\ \/ /\ ~IsNone(Top.automaton.validate_input)
                  /\ stack' = SetTop([Top EXCEPT !.result = ValidatorMessage,
                                                 !.validated = TRUE, !.invalid = TRUE,
                                                 !.pc = "save_own"])
               \/ stack' = SetTop([Top EXCEPT
                                  !.validated = ~IsNone(Top.automaton.validate_input),
                                  !.pc = "load"])
            /\ UNCHANGED <<completed, host_result>>
  /\ UNCHANGED <<world, suspended, racers, clock, caps, data_cache, automata, nautomata,
                 log, nruns, ninterrupts>>

\* lines 70-82: resolve knowledge, reflector and planner, read the
\* sub-automata's definitions, start with an empty step history
CoreLoad ==
  /\ Running
  /\ Top.pc = "load"
  /\ LET automaton_path == <<Location, Top.automaton.id>>
         automaton_data == automaton_yaml(world, Top.automaton.id)
         k == load_knowledge(caps, automaton_path, automaton_data.knowledge)
         r == IF IsNone(k.err)
                THEN load_reflector(k.c, automaton_path, automaton_data.reflector)
                ELSE k
         p == IF IsNone(r.err)
                THEN load_planner(r.c, automaton_path, automaton_data.planner)
                ELSE r
     IN
     /\ caps' = p.c
     /\ IF IsNone(p.err)
          THEN /\ data_cache' = sub_automata_data(data_cache, Location,
                                                  automaton_data.sub_automata)
               /\ stack' = SetTop([Top EXCEPT !.knowledge = k.val, !.reflect = r.val,
                                              !.plan = p.val, !.steps_taken = << >>,
                                              !.pc = "reflect"])
               /\ UNCHANGED host_result
          ELSE /\ Unwind(p.err[1])
               /\ UNCHANGED data_cache
  /\ UNCHANGED <<world, suspended, racers, clock, automata, nautomata, log, nruns,
                 ninterrupts, completed>>

\* CoreReflect with the reflector left uncalled: the planner is given the
\* reflection of the iteration before
CoreReflect_StaleReflection ==
  /\ Running
  /\ Top.pc = "reflect"
  /\ stack' = SetTop([Top EXCEPT !.pc = "plan"])
  /\ UNCHANGED <<world, suspended, racers, clock, caps, data_cache, automata, nautomata,
                 log, nruns, ninterrupts, completed, host_result>>

\* lines 84-86
CoreReflect ==
  /\ Running
  /\ Top.pc = "reflect"
  /\ stack' = SetTop(IF IsNone(Top.reflect)
                       THEN [Top EXCEPT !.reflection = None, !.pc = "plan"]
                       ELSE [Top EXCEPT !.reflection = Some(ReflectionLines),
                                        !.nreflect = @ + 1, !.pc = "plan"])
  /\ UNCHANGED <<world, suspended, racers, clock, caps, data_cache, automata, nautomata,
                 log, nruns, ninterrupts, completed, host_result>>

\* lines 87-89: the planner names one of the declared sub-automata and a request
CorePlan(automaton_id, request) ==
  /\ Running
  /\ Top.pc = "plan"
  /\ EndsWithPy(Top.plan[1].name)
  /\ <<automaton_id, request>> \in Plans
  /\ automaton_id \in Range(automaton_yaml(world, Top.automaton.id).sub_automata)
  /\ stack' = SetTop([Top EXCEPT
                        !.planned_action = [automaton_id |-> automaton_id, request |-> request],
                        !.action_text = PlanText,
                        !.nplan = @ + 1,
                        !.pc = "delegate"])
  /\ UNCHANGED <<world, suspended, racers, clock, caps, data_cache, automata, nautomata,
                 log, nruns, ninterrupts, completed, host_result>>

\* lines 87-89 with the builtin react planner: the engine completes the
\* prompt and react_planner turns the completion into an action
ReactPlan(result) ==
  /\ Running
  /\ Top.pc = "plan"
  /\ Top.plan[1].name = "react"
  /\ result \in ReactResults
  /\ LET r == react_planner(world, automaton_yaml(world, Top.automaton.id).sub_automata,
                            result) IN
     IF IsNone(r.err)
       THEN /\ stack' = SetTop([Top EXCEPT !.planned_action = r.action,
                                           !.action_text = PlanText,
                                           !.completion = Some(result),
                                           !.nplan = @ + 1,
                                           !.pc = "delegate"])
            /\ UNCHANGED host_result
       ELSE Unwind(r.err[1])
  /\ UNCHANGED <<world, suspended, racers, clock, caps, data_cache, automata, nautomata,
                 log, nruns, ninterrupts, completed>>

\* CoreDelegate with the sub-automaton built under the requester this run
\* was itself built under, instead of under this run
CoreDelegate_PassesOwnRequester(now) ==
  /\ Running
  /\ Top.pc = "delegate"
  /\ nruns < MaxRuns
  /\ LET key == AutomatonKey(Top.planned_action.automaton_id,
                             Top.automaton.requester_session_id,
                             Top.automaton.requester_id, Location)
         r == load_automaton(Builder, now, world, Top.planned_action.automaton_id,
                             Top.automaton.requester_session_id,
                             Top.automaton.requester_id, Location) IN
     /\ SetBuilder(r.b)
     /\ clock' = IF key \in DOMAIN automata THEN clock ELSE now
     /\ IF IsNone(r.err)
          THEN /\ stack' = Append(SetTop([Top EXCEPT !.nbuild = @ + 1, !.pc = "await"]),
                                  NewFrame(r.val[1], Top.planned_action.request, nruns + 1))
               /\ nruns' = nruns + 1
               /\ UNCHANGED host_result
          ELSE /\ Unwind(r.err[1])
               /\ UNCHANGED nruns
  /\ UNCHANGED <<world, suspended, racers, log, ninterrupts, completed>>

\* CoreDelegate with the sub-automaton's run started and not awaited: the
\* loop goes on to its next iteration while the run is in progress
CoreDelegate_NotAwaited(now) ==
  /\ Running
  /\ Top.pc = "delegate"
  /\ nruns < MaxRuns
  /\ LET key == AutomatonKey(Top.planned_action.automaton_id, Top.automaton.session_id,
                             Top.automaton.id, Location)
         r == load_automaton(Builder, now, world, Top.planned_action.automaton_id,
                             Top.automaton.session_id, Top.automaton.id, Location) IN
     /\ SetBuilder(r.b)
     /\ clock' = IF key \in DOMAIN automata THEN clock ELSE now
     /\ IF IsNone(r.err)
          THEN /\ stack' = Append(SetTop([Top EXCEPT !.nbuild = @ + 1, !.pc = "reflect"]),
                                  NewFrame(r.val[1], Top.planned_action.request, nruns + 1))
               /\ nruns' = nruns + 1
               /\ UNCHANGED host_result
          ELSE /\ Unwind(r.err[1])
               /\ UNCHANGED nruns
  /\ UNCHANGED <<world, suspended, racers, log, ninterrupts, completed>>

\* lines 91-97: build the sub-automaton under this run's own session and
\* identifier, and call its run
CoreDelegate(now) ==
  /\ Running
  /\ Top.pc = "delegate"
  /\ nruns < MaxRuns
  /\ LET key == AutomatonKey(Top.planned_action.automaton_id, Top.automaton.session_id,
                             Top.automaton.id, Location)
         r == load_automaton(Builder, now, world, Top.planned_action.automaton_id,
                             Top.automaton.session_id, Top.automaton.id, Location) IN
     /\ SetBuilder(r.b)
     /\ clock' = IF key \in DOMAIN automata THEN clock ELSE now
     /\ IF IsNone(r.err)
          THEN /\ stack' = Append(SetTop([Top EXCEPT !.nbuild = @ + 1, !.pc = "await"]),
                                  NewFrame(r.val[1], Top.planned_action.request, nruns + 1))
               /\ nruns' = nruns + 1
               /\ UNCHANGED host_result
          ELSE /\ Unwind(r.err[1])
               /\ UNCHANGED nruns
  /\ UNCHANGED <<world, suspended, racers, log, ninterrupts, completed>>

\* CoreRecord with the terminal check made against "think"
CoreRecord_TestsThink ==
  /\ Running
  /\ Top.pc = "record"
  /\ LET current_step == [reflection |-> Top.reflection,
                          plan_text |-> Top.action_text,
                          planned_action |-> Top.planned_action,
                          result |-> Top.result]
         steps == Append(Top.steps_taken, current_step) IN
     stack' = SetTop(IF Top.planned_action.automaton_id = "think"
                       THEN [Top EXCEPT !.steps_taken = steps, !.pc = "save_own"]
                       ELSE [Top EXCEPT !.steps_taken = steps, !.pc = "reflect"])
  /\ UNCHANGED <<world, suspended, racers, clock, caps, data_cache, automata, nautomata,
                 log, nruns, ninterrupts, completed, host_result>>

\* CoreRecord with the terminal check made before the step is appended
CoreRecord_ReturnsBeforeAppend ==
  /\ Running
  /\ Top.pc = "record"
  /\ LET current_step == [reflection |-> Top.reflection,
                          plan_text |-> Top.action_text,
                          planned_action |-> Top.planned_action,
                          result |-> Top.result]
         steps == Append(Top.steps_taken, current_step) IN
     stack' = SetTop(IF Top.planned_action.automaton_id = "finalize"
                       THEN [Top EXCEPT !.pc = "save_own"]
                       ELSE [Top EXCEPT !.steps_taken = steps, !.pc = "reflect"])
  /\ UNCHANGED <<world, suspended, racers, clock, caps, data_cache, automata, nautomata,
                 log, nruns, ninterrupts, completed, host_result>>

\* CoreRecord with the history kept on the Automaton instead of in the run:
\* the step is appended for every run of the same instance
CoreRecord_SharedHistory ==
  /\ Running
  /\ Top.pc = "record"
  /\ LET current_step == [reflection |-> Top.reflection,
                          plan_text |-> Top.action_text,
                          planned_action |-> Top.planned_action,
                          result |-> Top.result]
         steps == Append(Top.steps_taken, current_step) IN
     /\ stack' = SetTop(IF Top.planned_action.automaton_id = "finalize"
                          THEN [Top EXCEPT !.steps_taken = steps, !.pc = "save_own"]
                          ELSE [Top EXCEPT !.steps_taken = steps, !.pc = "reflect"])
     /\ suspended' = [i \in DOMAIN suspended |->
                        IF suspended[i].automaton = Top.automaton
                          THEN [suspended[i] EXCEPT !.steps_taken = Append(@, current_step)]
                          ELSE suspended[i]]
  /\ UNCHANGED <<world, racers, clock, caps, data_cache, automata, nautomata,
                 log, nruns, ninterrupts, completed, host_result>>

\* CoreRecord with a cap of two iterations on the loop
CoreRecord_IterationCap ==
  /\ Running
  /\ Top.pc = "record"
  /\ LET current_step == [reflection |-> Top.reflection,
                          plan_text |-> Top.action_text,
                          planned_action |-> Top.planned_action,
                          result |-> Top.result]
         steps == Append(Top.steps_taken, current_step) IN
     stack' = SetTop(IF Top.planned_action.automaton_id = "finalize" \/ Len(steps) = 2
                       THEN [Top EXCEPT !.steps_taken = steps, !.pc = "save_own"]
                       ELSE [Top EXCEPT !.steps_taken = steps, !.pc = "reflect"])
  /\ UNCHANGED <<world, suspended, racers, clock, caps, data_cache, automata, nautomata,
                 log, nruns, ninterrupts, completed, host_result>>

\* CoreRecord with the history kept to its newest step
CoreRecord_KeepsLastStep ==
  /\ Running
  /\ Top.pc = "record"
  /\ LET current_step == [reflection |-> Top.reflection,
                          plan_text |-> Top.action_text,
                          planned_action |-> Top.planned_action,
                          result |-> Top.result]
         steps == <<current_step>> IN
     stack' = SetTop(IF Top.planned_action.automaton_id = "finalize"
                       THEN [Top EXCEPT !.steps_taken = steps, !.pc = "save_own"]
                       ELSE [Top EXCEPT !.steps_taken = steps, !.pc = "reflect"])
  /\ UNCHANGED <<world, suspended, racers, clock, caps, data_cache, automata, nautomata,
                 log, nruns, ninterrupts, completed, host_result>>

\* CoreRecord with the loop going on when finalize's run did not give a
\* reply of its own: the validator's message or the stand-in text
CoreRecord_RetriesFailedFinalize ==
  /\ Running
  /\ Top.pc = "record"
  /\ LET current_step == [reflection |-> Top.reflection,
                          plan_text |-> Top.action_text,
                          planned_action |-> Top.planned_action,
                          result |-> Top.result]
         steps == Append(Top.steps_taken, current_step) IN
     stack' = SetTop(IF /\ Top.planned_action.automaton_id = "finalize"
                        /\ Top.result \notin {ValidatorMessage, StandIn("Finalize Reply")}
                       THEN [Top EXCEPT !.steps_taken = steps, !.pc = "save_own"]
                       ELSE [Top EXCEPT !.steps_taken = steps, !.pc = "reflect"])
  /\ UNCHANGED <<world, suspended, racers, clock, caps, data_cache, automata, nautomata,
                 log, nruns, ninterrupts, completed, host_result>>

\* lines 98-104: record the step, return when the target was finalize
CoreRecord ==
  /\ Running
  /\ Top.pc = "record"
  /\ LET current_step == [reflection |-> Top.reflection,
                          plan_text |-> Top.action_text,
                          planned_action |-> Top.planned_action,
                          result |-> Top.result]
         steps == Append(Top.steps_taken, current_step) IN
     stack' = SetTop(IF Top.planned_action.automaton_id = "finalize"
                       THEN [Top EXCEPT !.steps_taken = steps, !.pc = "save_own"]
                       ELSE [Top EXCEPT !.steps_taken = steps, !.pc = "reflect"])
  /\ UNCHANGED <<world, suspended, racers, clock, caps, data_cache, automata, nautomata,
                 log, nruns, ninterrupts, completed, host_result>>

\* ------------------------------------------------------------- leaf runner
\* run_builtin_function lines 108-111
BuiltinValidate ==
  /\ Running
  /\ Top.pc = "run"
  /\ Top.automaton.runner = "builtin_function_runner"
  /\ \/ /\ ~IsNone(Top.automaton.validate_input)
        /\ stack' = SetTop([Top EXCEPT !.result = ValidatorMessage, !.validated = TRUE, !.invalid = TRUE,
                                       !.pc = "save_own"])
     \/ stack' = SetTop([Top EXCEPT
                            !.validated = ~IsNone(Top.automaton.validate_input),
                            !.pc = "function"])
  /\ UNCHANGED <<world, suspended, racers, clock, caps, data_cache, automata, nautomata,
                 log, nruns, ninterrupts, completed, host_result>>

\* lines 113-119
BuiltinFunction ==
  /\ Running
  /\ Top.pc = "function"
  /\ LET r == load_builtin_function(Top.automaton.id, Top.automaton.name, Top.request) IN
     IF IsNone(r.err)
       THEN /\ stack' = SetTop([Top EXCEPT !.result = r.val, !.pc = "save_own"])
            /\ UNCHANGED host_result
       ELSE Unwind(r.err[1])
  /\ UNCHANGED <<world, suspended, racers, clock, caps, data_cache, automata, nautomata,
                 log, nruns, ninterrupts, completed>>

\* a custom runner (runner.py) returns some text or fails
CustomRun(result) ==
  /\ Running
  /\ Top.pc = "run"
  /\ Top.automaton.runner = "custom"
  /\ stack' = SetTop([Top EXCEPT !.result = result, !.pc = "save_own"])
  /\ UNCHANGED <<world, suspended, racers, clock, caps, data_cache, automata, nautomata,
                 log, nruns, ninterrupts, completed, host_result>>

CustomRaise ==
  /\ Running
  /\ Top.pc = "run"
  /\ Top.automaton.runner = "custom"
  /\ Unwind("RuntimeError")
  /\ UNCHANGED <<world, suspended, racers, clock, caps, data_cache, automata, nautomata,
                 log, nruns, ninterrupts, completed>>

\* SaveOwn with the event naming the automaton by its display name
SaveOwn_OtherFields ==
  /\ Running
  /\ Top.pc = "save_own"
  /\ LET event == [requester |-> Top.automaton.requester_id,
                   sub_automaton_name |-> Top.automaton.name,
                   input |-> Top.request,
                   result |-> Top.result,
                   timestamp |-> generate_timestamp_id(clock)] IN
     /\ log' = save_event(log, [event |-> event, run |-> Top.run],
                          Top.automaton.id, Top.automaton.session_id)
     /\ stack' = SetTop([Top EXCEPT !.event = Some(event), !.pc = "save_req"])
  /\ UNCHANGED <<world, suspended, racers, clock, caps, data_cache, automata, nautomata,
                 nruns, ninterrupts, completed, host_result>>

\* SaveOwn without the write to the automaton's own log (line 50 left out)
SaveOwn_NoWrite ==
  /\ Running
  /\ Top.pc = "save_own"
  /\ LET event == [requester |-> Top.automaton.requester_id,
                   sub_automaton_name |-> Top.automaton.id,
                   input |-> Top.request,
                   result |-> Top.result,
                   timestamp |-> generate_timestamp_id(clock)] IN
     stack' = SetTop([Top EXCEPT !.event = Some(event), !.pc = "save_req"])
  /\ UNCHANGED <<world, suspended, racers, clock, caps, data_cache, automata, nautomata, log,
                 nruns, ninterrupts, completed, host_result>>

\* SaveRequester with the second save_event given the automaton's own id
\* and session once more
SaveRequester_OwnLogTwice ==
  /\ Running
  /\ Top.pc = "save_req"
  /\ log' = save_event(log, [event |-> Top.event[1], run |-> Top.run],
                       Top.automaton.id, Top.automaton.session_id)
  /\ completed' = completed \cup
       {[run |-> Top.run, automaton |-> Top.automaton, request |-> Top.request,
         result |-> Top.result, invalid |-> Top.invalid,
         interrupted |-> Top.interrupted, plan |-> Top.plan,
         steps_taken |-> Top.steps_taken, own_log_start |-> Top.own_log_start,
         own_log_end |-> LogLen(log, <<Top.automaton.id, Top.automaton.session_id>>)]}
  /\ IF Len(stack) = 1
       THEN /\ stack' = << >>
            /\ host_result' = [kind |-> "returned", value |-> Top.result]
       ELSE /\ stack' = [SubSeq(stack, 1, Len(stack) - 1) EXCEPT
                           ![Len(stack) - 1].result = Top.result,
                           ![Len(stack) - 1].pc = "record"]
            /\ UNCHANGED host_result
  /\ UNCHANGED <<world, suspended, racers, clock, caps, data_cache, automata, nautomata,
                 nruns, ninterrupts>>

\* SaveRequester with the second save_event given the host's identity and
\* session, whoever the requester of the run is
SaveRequester_HostLog ==
  /\ Running
  /\ Top.pc = "save_req"
  /\ log' = save_event(log, [event |-> Top.event[1], run |-> Top.run],
                       stack[1].automaton.requester_id,
                       stack[1].automaton.requester_session_id)
  /\ completed' = completed \cup
       {[run |-> Top.run, automaton |-> Top.automaton, request |-> Top.request,
         result |-> Top.result, invalid |-> Top.invalid,
         interrupted |-> Top.interrupted, plan |-> Top.plan,
         steps_taken |-> Top.steps_taken, own_log_start |-> Top.own_log_start,
         own_log_end |-> LogLen(log, <<Top.automaton.id, Top.automaton.session_id>>)]}
  /\ IF Len(stack) = 1
       THEN /\ stack' = << >>
            /\ host_result' = [kind |-> "returned", value |-> Top.result]
       ELSE /\ stack' = [SubSeq(stack, 1, Len(stack) - 1) EXCEPT
                           ![Len(stack) - 1].result = Top.result,
                           ![Len(stack) - 1].pc = "record"]
            /\ UNCHANGED host_result
  /\ UNCHANGED <<world, suspended, racers, clock, caps, data_cache, automata, nautomata,
                 nruns, ninterrupts>>

\* Interrupt with no except clause in the wrapper: the KeyboardInterrupt
\* leaves every run and reaches the host
Interrupt_Uncaught ==
  /\ Running
  /\ ninterrupts < MaxInterrupts
  /\ ninterrupts' = ninterrupts + 1
  /\ stack' = << >>
  /\ host_result' = [kind |-> "raised", value |-> "KeyboardInterrupt"]
  /\ UNCHANGED <<world, suspended, racers, clock, caps, data_cache, automata, nautomata,
                 log, nruns, completed>>

\* SaveOwn with the two save_event calls in the other order: the first
\* write goes to the requester's log
SaveOwn_RequesterFirst ==
  /\ Running
  /\ Top.pc = "save_own"
  /\ LET event == [requester |-> Top.automaton.requester_id,
                   sub_automaton_name |-> Top.automaton.id,
                   input |-> Top.request,
                   result |-> Top.result,
                   timestamp |-> generate_timestamp_id(clock)] IN
     /\ log' = save_event(log, [event |-> event, run |-> Top.run],
                          Top.automaton.requester_id, Top.automaton.requester_session_id)
     /\ stack' = SetTop([Top EXCEPT !.event = Some(event), !.pc = "save_req"])
  /\ UNCHANGED <<world, suspended, racers, clock, caps, data_cache, automata, nautomata,
                 nruns, ninterrupts, completed, host_result>>

\* Interrupt with the whole body of the wrapper inside its try: an
\* interruption during the log writes is caught by the same wrapper
Interrupt_CaughtAfterRunner ==
  /\ Running
  /\ ninterrupts < MaxInterrupts
  /\ ninterrupts' = ninterrupts + 1
  /\ stack' = SetTop([Top EXCEPT !.result = StandIn(Top.automaton.name),
                                 !.interrupted = TRUE, !.pc = "save_own"])
  /\ UNCHANGED <<world, suspended, racers, clock, caps, data_cache, automata, nautomata,
                 log, nruns, completed, host_result>>

\* --------------------------------------------------------- session wrapper
\* add_session_handling.wrapper lines 43-50: build the event, write it to
\* the automaton's own log.  The clock is followed at the builds, where
\* session ids are drawn; the event's timestamp is the reading it stands at.
SaveOwn ==
  /\ Running
  /\ Top.pc = "save_own"
  /\ LET event == [requester |-> Top.automaton.requester_id,
                   sub_automaton_name |-> Top.automaton.id,
                   input |-> Top.request,
                   result |-> Top.result,
                   timestamp |-> generate_timestamp_id(clock)] IN
     /\ log' = save_event(log, [event |-> event, run |-> Top.run],
                          Top.automaton.id, Top.automaton.session_id)
     /\ stack' = SetTop([Top EXCEPT !.event = Some(event), !.pc = "save_req"])
  /\ UNCHANGED <<world, suspended, racers, clock, caps, data_cache, automata, nautomata,
                 nruns, ninterrupts, completed, host_result>>

\* lines 51-52: write the same event to the requester's log and return the
\* result to the caller, a parent loop at line 97 or the host
SaveRequester ==
  /\ Running
  /\ Top.pc = "save_req"
  /\ log' = save_event(log, [event |-> Top.event[1], run |-> Top.run],
                       Top.automaton.requester_id, Top.automaton.requester_session_id)
  /\ completed' = completed \cup
       {[run |-> Top.run, automaton |-> Top.automaton, request |-> Top.request,
         result |-> Top.result, invalid |-> Top.invalid,
         interrupted |-> Top.interrupted, plan |-> Top.plan,
         steps_taken |-> Top.steps_taken, own_log_start |-> Top.own_log_start,
         own_log_end |-> LogLen(log, <<Top.automaton.id, Top.automaton.session_id>>)]}
  /\ IF Len(stack) = 1
       THEN /\ stack' = << >>
            /\ host_result' = [kind |-> "returned", value |-> Top.result]
       ELSE /\ stack' = [SubSeq(stack, 1, Len(stack) - 1) EXCEPT
                           ![Len(stack) - 1].result = Top.result,
                           ![Len(stack) - 1].pc = "record"]
            /\ UNCHANGED host_result
  /\ UNCHANGED <<world, suspended, racers, clock, caps, data_cache, automata, nautomata,
                 nruns, ninterrupts>>

\* KeyboardInterrupt in the innermost run.  Inside the wrapper's try (the
\* runner is executing) the wrapper's except replaces the result; after the
\* try it leaves this wrapper and is raised at the caller's await, inside
\* the caller's try, or reaches the host.
Interrupt ==
  /\ Running
  /\ ninterrupts < MaxInterrupts
  /\ ninterrupts' = ninterrupts + 1
  /\ IF Top.pc \in RunnerPcs
       THEN /\ stack' = SetTop([Top EXCEPT !.result = StandIn(Top.automaton.name),
                                           !.interrupted = TRUE, !.pc = "save_own"])
            /\ UNCHANGED host_result
       ELSE IF Len(stack) = 1
         THEN /\ stack' = << >>
              /\ host_result' = [kind |-> "raised", value |-> "KeyboardInterrupt"]
         ELSE /\ stack' = [SubSeq(stack, 1, Len(stack) - 1) EXCEPT
                             ![Len(stack) - 1].result =
                                 StandIn(stack[Len(stack) - 1].automaton.name),
                             ![Len(stack) - 1].interrupted = TRUE,
                             ![Len(stack) - 1].pc = "save_own"]
              /\ UNCHANGED host_result
  /\ UNCHANGED <<world, suspended, racers, clock, caps, data_cache, automata, nautomata,
                 log, nruns, completed>>

Next ==
  \/ \E id \in TopIds, requester_id \in HostIds, now \in Readings(clock) :
        HostLoad(id, requester_id, now)
  \/ \E key \in DOMAIN automata : HostRun(key)
  \/ CoreValidate
  \/ CoreLoad
  \/ CoreReflect
  \/ \E plan \in Plans : CorePlan(plan[1], plan[2])
  \/ \E now \in Readings(clock) : CoreDelegate(now)
  \/ CoreRecord
  \/ BuiltinValidate
  \/ BuiltinFunction
  \/ \E result \in CustomResults : CustomRun(result)
  \/ CustomRaise
  \/ SaveOwn
  \/ SaveRequester
  \/ Interrupt

Spec == Init /\ [][Next]_vars

\* the same program with a second requester identity at the host
NextEdges ==
  \/ Next
  \/ \E id \in TopIds, requester_id \in OtherHostIds, now \in Readings(clock) :
        HostLoad(id, requester_id, now)

SpecEdges == Init /\ [][NextEdges]_vars

\* the same program over the other definition stores, one of which wires
\* the builtin react planner
InitStores == world \in StoreWorlds /\ InitProcess

NextStores ==
  \/ Next
  \/ \E result \in ReactResults : ReactPlan(result)

SpecStores == InitStores /\ [][NextStores]_vars

\* =================================================================== claims
\* --------------------------------------------------------------- two tasks
\* The host awaits two runs at once (asyncio.gather of two run() calls on
\* handles it holds).  The event loop runs one task at a time and changes
\* task only where the running one is suspended in an await that waits for
\* something outside the program: the validator's, reflector's and planner's
\* engine calls (lines 66, 85, 87, 109), a leaf function or a custom runner
\* (line 119); or when the running task has ended.
SuspensionPcs == {"run", "reflect", "plan", "function"}

Switch ==
  /\ stack # suspended
  /\ Running => Top.pc \in SuspensionPcs
  /\ stack' = suspended
  /\ suspended' = stack
  /\ UNCHANGED <<world, racers, clock, caps, data_cache, automata, nautomata, log,
                 nruns, ninterrupts, completed, host_result>>

\* the steps of the two tasks; the delivery of a KeyboardInterrupt is
\* followed in Spec, with one task
NextTasks ==
  \/ \E id \in TopIds, requester_id \in HostIds, now \in Readings(clock) :
        HostLoad(id, requester_id, now)
  \/ \E key \in DOMAIN automata : HostRun(key)
  \/ CoreValidate
  \/ CoreLoad
  \/ CoreReflect
  \/ \E plan \in Plans : CorePlan(plan[1], plan[2])
  \/ \E now \in Readings(clock) : CoreDelegate(now)
  \/ CoreRecord
  \/ BuiltinValidate
  \/ BuiltinFunction
  \/ \E result \in CustomResults : CustomRun(result)
  \/ CustomRaise
  \/ SaveOwn
  \/ SaveRequester
  \/ Switch

SpecTasks == Init /\ [][NextTasks]_vars

\* ------------------------------------------------------------ racing calls
\* functools.lru_cache(maxsize=None), as it wraps _load_engine (engines.py
\* line 12) and _load_automaton (automaton.py line 33), called from several
\* threads of the host for one key: the wrapper looks the key up, on a miss
\* calls the function with no lock held, then stores the result under the
\* key, replacing what another caller may have stored meanwhile.  A caller
\* is [cache, pc, val, settled]: pc is "lookup", "build", "store" or "done",
\* val what the call returns, settled tells that the call found the key
\* cached with no build of that key in progress.
RaceCaches == {"engines", "automata"}
RaceEnginePath == <<Location, "A">>
RaceEngineName == Some("gpt-4")
RaceAutomatonKey == AutomatonKey("think", HostSession, "human_tester", Location)

Cached(cache) ==
  IF cache = "engines" THEN <<RaceEnginePath, RaceEngineName>> \in DOMAIN caps.engines
  ELSE RaceAutomatonKey \in DOMAIN automata

Retained(cache) ==
  IF cache = "engines" THEN caps.engines[<<RaceEnginePath, RaceEngineName>>]
  ELSE Some(automata[RaceAutomatonKey])

InFlightBuilds(cache) ==
  {i \in 1..Len(racers) : racers[i].cache = cache /\ racers[i].pc \in {"build", "store"}}

RaceCall(cache) ==
  /\ Len(racers) < MaxCallers
  /\ racers' = Append(racers, [cache |-> cache, pc |-> "lookup", val |-> None,
                               settled |-> FALSE])
  /\ UNCHANGED <<world, suspended, clock, caps, data_cache, automata, nautomata, log,
                 stack, nruns, ninterrupts, completed, host_result>>

RaceLookup(i) ==
  /\ i \in 1..Len(racers)
  /\ racers[i].pc = "lookup"
  /\ racers' = [racers EXCEPT ![i] =
                  IF Cached(racers[i].cache)
                    THEN [@ EXCEPT !.pc = "done", !.val = Retained(racers[i].cache),
                                   !.settled = InFlightBuilds(racers[i].cache) = {}]
                    ELSE [@ EXCEPT !.pc = "build"]]
  /\ UNCHANGED <<world, suspended, clock, caps, data_cache, automata, nautomata, log,
                 stack, nruns, ninterrupts, completed, host_result>>

\* the wrapped function runs
RaceBuildEngine(i) ==
  /\ i \in 1..Len(racers)
  /\ racers[i].pc = "build"
  /\ racers[i].cache = "engines"
  /\ LET r == _load_engine_uncached(caps, RaceEnginePath, RaceEngineName) IN
     /\ caps' = r.c
     /\ racers' = [racers EXCEPT ![i].pc = "store", ![i].val = r.val]
  /\ UNCHANGED <<world, suspended, clock, data_cache, automata, nautomata, log,
                 stack, nruns, ninterrupts, completed, host_result>>

RaceBuildAutomaton(i, now) ==
  /\ i \in 1..Len(racers)
  /\ racers[i].pc = "build"
  /\ racers[i].cache = "automata"
  /\ LET r == _load_automaton_uncached(Builder, now, world, "think", HostSession,
                                       "human_tester", Location) IN
     /\ SetBuilder(r.b)
     /\ racers' = [racers EXCEPT ![i].pc = "store", ![i].val = r.val]
  /\ clock' = now
  /\ UNCHANGED <<world, suspended, log, stack, nruns, ninterrupts, completed, host_result>>

\* the wrapper stores the result under the key
RaceStore(i) ==
  /\ i \in 1..Len(racers)
  /\ racers[i].pc = "store"
  /\ racers' = [racers EXCEPT ![i].pc = "done"]
  /\ IF racers[i].cache = "engines"
       THEN /\ caps' = Memoize(caps, "engines", <<RaceEnginePath, RaceEngineName>>,
                               Ok(caps, racers[i].val)).c
            /\ UNCHANGED automata
       ELSE /\ automata' = MemoizeAutomaton(RaceAutomatonKey,
                                            [b |-> Builder, val |-> racers[i].val,
                                             err |-> None]).b.automata
            /\ UNCHANGED caps
  /\ UNCHANGED <<world, suspended, clock, data_cache, nautomata, log,
                 stack, nruns, ninterrupts, completed, host_result>>

NextRace ==
  \/ \E cache \in RaceCaches : RaceCall(cache)
  \/ \E i \in 1..MaxCallers : RaceLookup(i)
  \/ \E i \in 1..MaxCallers : RaceBuildEngine(i)
  \/ \E i \in 1..MaxCallers, now \in Readings(clock) : RaceBuildAutomaton(i, now)
  \/ \E i \in 1..MaxCallers : RaceStore(i)

SpecRace == Init /\ [][NextRace]_vars

\* The same calls where the wrapped function can fail for a reason outside
\* the program: ChatOpenAI(...) refuses to be constructed
\* (builtin_toolkit/engines.py), spec.yml cannot be read
\* (automaton_loading.py line 18).  The exception passes through the
\* lru_cache wrapper to the caller, whose pc becomes "raised".  _load_automaton
\* has generated its session (line 40) before it reads the definition.
RaceRaise(i, now) ==
  /\ i \in 1..Len(racers)
  /\ racers[i].pc = "build"
  /\ racers' = [racers EXCEPT ![i].pc = "raised"]
  /\ IF racers[i].cache = "engines"
       THEN /\ caps' = Memoize(caps, "engines", <<RaceEnginePath, RaceEngineName>>,
                               Raise(caps, "ValidationError")).c
            /\ UNCHANGED <<automata, clock>>
       ELSE /\ automata' = MemoizeAutomaton(RaceAutomatonKey,
                                            [b |-> Builder, val |-> None,
                                             err |-> Some("FileNotFoundError")]).b.automata
            /\ clock' = now
            /\ UNCHANGED caps
  /\ UNCHANGED <<world, suspended, data_cache, nautomata, log,
                 stack, nruns, ninterrupts, completed, host_result>>

NextRetry ==
  \/ NextRace
  \/ \E i \in 1..MaxCallers, now \in Readings(clock) : RaceRaise(i, now)

SpecRetry == Init /\ [][NextRetry]_vars

\* --------------------------------------------------------- definition loads
\* load_automaton_data called for one identifier first and then for others,
\* one new identifier after another, with the first identifier loaded again
\* at any time.  Identifiers are numbered; 0 is the one loaded first.
DefinitionPath(n) == <<Location, n>>

Newest == CHOOSE n \in 0..LruMaxSize :
            /\ \E i \in 1..Len(data_cache) : data_cache[i] = DefinitionPath(n)
            /\ \A i \in 1..Len(data_cache) : data_cache[i][2] <= n

LoadFirst ==
  /\ data_cache' = load_automaton_data(data_cache, DefinitionPath(0))
  /\ UNCHANGED <<world, suspended, racers, clock, caps, automata, nautomata, log,
                 stack, nruns, ninterrupts, completed, host_result>>

LoadNext ==
  /\ data_cache # << >>
  /\ Newest < LruMaxSize
  /\ data_cache' = load_automaton_data(data_cache, DefinitionPath(Newest + 1))
  /\ UNCHANGED <<world, suspended, racers, clock, caps, automata, nautomata, log,
                 stack, nruns, ninterrupts, completed, host_result>>

NextDefinitions ==
  \/ LoadFirst
  \/ LoadNext

SpecDefinitions == Init /\ [][NextDefinitions]_vars

\* ------------------------------------------------------- planner harness
\* react_planner called with a mapping of sub-automata definitions the
\* caller has put together: any of the leaf definitions of the store, in any
\* order.  The engine's completion is one of ReactResults.  host_result
\* keeps the call and what it gave.
PlannerIds == {"think", "write_file", "finalize"}

MaxDeclared == 3

DeclaredLists ==
  {s \in UNION {[1..n -> PlannerIds] : n \in 0..MaxDeclared} :
     \A i, j \in 1..Len(s) : i # j => s[i] # s[j]}

PlanDirect(sub_automata, result) ==
  /\ LET r == react_planner(world, sub_automata, result) IN
     host_result' =
       IF IsNone(r.err)
         THEN [kind |-> "planned",
               value |-> [sub_automata |-> sub_automata, result |-> result,
                          action |-> r.action]]
         ELSE [kind |-> "raised",
               value |-> [sub_automata |-> sub_automata, result |-> result,
                          action |-> NoAction]]
  /\ UNCHANGED <<world, suspended, racers, clock, caps, data_cache, automata, nautomata,
                 log, stack, nruns, ninterrupts, completed>>

NextPlanner ==
  \E sub_automata \in DeclaredLists, result \in ReactResults :
    PlanDirect(sub_automata, result)

SpecPlanner == InitStores /\ [][NextPlanner]_vars

\* ------------------------------------------------------ resolver harness
\* The capability loaders called directly, as run_core_automaton and
\* _load_automaton call them, with wirings a spec.yml can hold: absent
\* (None), a custom ".py" name, a builtin name, a name that is neither; with
\* the engine absent, builtin, custom or unknown.
ResolvePaths == {<<Location, "A">>}
EngineNames == {None, Some("gpt-4"), Some("engine.py"), Some("gpt-5")}
PlannerNames == {"planner.py", "react", "nonexistent_planner"}
ReflectorNames == {"reflector.py", "nonexistent_reflector"}
KnowledgeNames == {"knowledge.py", "nonexistent_knowledge"}
ValidatorNames == {"validator.py", "nonexistent_validator"}
Wirings(names) == {None} \cup {Wiring(name, engine) : name \in names, engine \in EngineNames}

\* what the caller of a loader sees: the object returned or the exception
ResolveOutcome(r) ==
  IF ~IsNone(r.err) THEN [kind |-> "raised", value |-> r.err[1]]
  ELSE IF IsNone(r.val) THEN [kind |-> "resolved", value |-> "None"]
  ELSE [kind |-> "resolved", value |-> r.val[1].name]

Resolved(r) ==
  /\ caps.nobj < MaxObjects
  /\ caps' = r.c
  /\ host_result' = ResolveOutcome(r)
  /\ UNCHANGED <<world, suspended, racers, clock, data_cache, automata, nautomata, log, stack,
                 nruns, ninterrupts, completed>>

ResolveEngine(automaton_path, name) == Resolved(load_engine(caps, automaton_path, name))

ResolvePlanner(automaton_path, data) ==
  /\ ~IsNone(data)
  /\ Resolved(load_planner(caps, automaton_path, data))

ResolveReflector(automaton_path, data) == Resolved(load_reflector(caps, automaton_path, data))

ResolveKnowledge(automaton_path, data) == Resolved(load_knowledge(caps, automaton_path, data))

ResolveValidator(automaton_path, data) == Resolved(load_validator(caps, automaton_path, data))

\* The capabilities that consult their engine when they are called: the
\* react planner awaits engine(prompt) at react.py line 148; the custom
\* reflector and validator modules of the stores are wired with an engine and
\* do the same with the engine their load() was given.
OracleBacked == {"react", "reflector.py", "validator.py"}

\* a resolved planner, reflector, knowledge source or validator is called
InvokeCapability(cache, key) ==
  /\ cache \in {"planners", "reflectors", "knowledges", "validators"}
  /\ key \in DOMAIN caps[cache]
  /\ ~IsNone(caps[cache][key])
  /\ host_result' =
       IF caps[cache][key][1].name \in OracleBacked /\ IsNone(caps[cache][key][1].engine)
         THEN [kind |-> "raised", value |-> "TypeError: NoneType object is not callable"]
         ELSE [kind |-> "called", value |-> caps[cache][key][1].name]
  /\ UNCHANGED <<world, suspended, racers, clock, caps, data_cache, automata, nautomata, log, stack,
                 nruns, ninterrupts, completed>>

ResolveKeys ==
  {<<p, n, e>> : p \in ResolvePaths,
                n \in PlannerNames \cup ReflectorNames \cup KnowledgeNames \cup ValidatorNames,
                e \in EngineNames}

NextResolve ==
  \/ \E p \in ResolvePaths, name \in EngineNames : ResolveEngine(p, name)
  \/ \E p \in ResolvePaths, data \in Wirings(PlannerNames) : ResolvePlanner(p, data)
  \/ \E p \in ResolvePaths, data \in Wirings(ReflectorNames) : ResolveReflector(p, data)
  \/ \E p \in ResolvePaths, data \in Wirings(KnowledgeNames) : ResolveKnowledge(p, data)
  \/ \E p \in ResolvePaths, data \in Wirings(ValidatorNames) : ResolveValidator(p, data)
  \/ \E cache \in {"planners", "reflectors", "knowledges", "validators"}, key \in ResolveKeys :
        InvokeCapability(cache, key)

SpecResolve == Init /\ [][NextResolve]_vars

Frames == Range(stack)
Post == {"save_own", "save_req"}
IsCore(a) == a.runner = "core_automaton_runner"
Normal(r) == ~r.interrupted /\ ~r.invalid
Target(steps, i) == steps[i].planned_action.automaton_id
HasFinalize(steps) == \E i \in 1..Len(steps) : Target(steps, i) = "finalize"
OwnLog(a) == <<a.id, a.session_id>>
RequesterLog(a) == <<a.requester_id, a.requester_session_id>>
KeyOf(a) == AutomatonKey(a.id, a.requester_session_id, a.requester_id, Location)
\* the positions of log_path that hold the event of wrapper invocation run
LinesOf(log_path, run) ==
  IF log_path \in DOMAIN log
    THEN {i \in 1..Len(log[log_path]) : log[log_path][i].run = run}
    ELSE {}

\* ----------------------------------------------------------------------- C1
C1_AfterFinalize ==
  \A f \in Frames : HasFinalize(f.steps_taken) =>
    LET k == Len(f.steps_taken) IN
    /\ f.pc \in Post
    /\ Target(f.steps_taken, k) = "finalize"
    /\ f.result = f.steps_taken[k].result
    /\ f.nplan = k
    /\ f.nbuild = k
    /\ f.nreflect = IF IsNone(f.reflect) THEN 0 ELSE k

C1_RecordStep ==
  (Running /\ Top.pc = "record" /\ ninterrupts' = ninterrupts) =>
    /\ Len(stack') = Len(stack)
    /\ LET g == stack'[Len(stack)] IN
       /\ Len(g.steps_taken) = Len(Top.steps_taken) + 1
       /\ g.steps_taken[Len(g.steps_taken)].result = Top.result
       /\ IF Top.planned_action.automaton_id = "finalize"
            THEN /\ g.pc = "save_own"
                 /\ g.result = Top.result
                 /\ <<g.nreflect, g.nplan, g.nbuild>> = <<Top.nreflect, Top.nplan, Top.nbuild>>
            ELSE g.pc = "reflect"

C1_Return ==
  (/\ Running /\ Len(stack) = 1 /\ Top.pc = "save_req"
   /\ HasFinalize(Top.steps_taken) /\ ninterrupts' = ninterrupts) =>
    host_result' = [kind |-> "returned",
                    value |-> Top.steps_taken[Len(Top.steps_taken)].result]

\* C1: after each delegation of the orchestration loop, a finalize target
\* makes the run return exactly that sub-automaton's result with no further
\* reflector call, planner call or sub-automaton build; any other target
\* makes the loop start another iteration at the reflect stage.
C1_TerminalCheck == []C1_AfterFinalize /\ [][C1_RecordStep /\ C1_Return]_vars

\* a run that went round the loop once on think and then returned on finalize
C1_Witness ==
  /\ host_result.kind = "returned"
  /\ \E c \in completed :
       /\ IsCore(c.automaton) /\ Normal(c)
       /\ Len(c.steps_taken) = 2
       /\ Target(c.steps_taken, 1) = "think"
       /\ host_result.value = c.steps_taken[2].result

\* ----------------------------------------------------------------------- C2
ReturnsAtFirstFinalize(steps, result) ==
  LET k == Len(steps) IN
  /\ k >= 1
  /\ Target(steps, k) = "finalize"
  /\ \A j \in 1..(k - 1) : Target(steps, j) # "finalize"
  /\ result = steps[k].result

\* C2: a composite run that returns from its loop returns at the first
\* finalize target: with that target the k-th one planned (k >= 1), the
\* result is the k-th delegation's result, the planner was called k times
\* and the step history holds exactly k steps.
C2_KSteps ==
  /\ \A f \in Frames :
       (IsCore(f.automaton) /\ Normal(f) /\ f.pc \in Post) =>
         /\ ReturnsAtFirstFinalize(f.steps_taken, f.result)
         /\ f.nplan = Len(f.steps_taken)
  /\ \A c \in completed :
       (IsCore(c.automaton) /\ Normal(c)) =>
         ReturnsAtFirstFinalize(c.steps_taken, c.result)

\* the scenario: write_file then finalize, "saved" returned, two steps
C2_Witness ==
  \E c \in completed :
    /\ IsCore(c.automaton) /\ Normal(c)
    /\ Len(c.steps_taken) = 2
    /\ Target(c.steps_taken, 1) = "write_file"
    /\ Target(c.steps_taken, 2) = "finalize"
    /\ c.result = "saved"
    /\ host_result = [kind |-> "returned", value |-> "saved"]

\* ----------------------------------------------------------------------- C3
\* C3: every completed run has exactly one event in the running automaton's
\* own (id, session) log and exactly one in the requester's (requester id,
\* requester session) log, the two with identical field values, and none
\* in any other log.
C3_AuditSymmetry ==
  \A c \in completed :
    LET own == OwnLog(c.automaton)
        req == RequesterLog(c.automaton) IN
    /\ Cardinality(LinesOf(own, c.run)) = 1
    /\ Cardinality(LinesOf(req, c.run)) = 1
    /\ \A p \in DOMAIN log \ {own, req} : LinesOf(p, c.run) = {}
    /\ \A i \in LinesOf(own, c.run), j \in LinesOf(req, c.run) :
         /\ log[own][i].event = log[req][j].event
         /\ log[own][i].event.requester = c.automaton.requester_id
         /\ log[own][i].event.sub_automaton_name = c.automaton.id
         /\ log[own][i].event.input = c.request
         /\ log[own][i].event.result = c.result

\* a delegated run has completed and its event is in its own log and in A's
C3_Witness ==
  \E c \in completed :
    /\ c.automaton.requester_id = "A"
    /\ LinesOf(OwnLog(c.automaton), c.run) # {}
    /\ LinesOf(RequesterLog(c.automaton), c.run) # {}

\* ----------------------------------------------------------------------- C4
\* what a completed composite run with k delegations appended to its own
\* log: the k delegations' events in order, then n further entries
OwnLogGrowth(c, n) ==
  LET own == OwnLog(c.automaton)
      k == Len(c.steps_taken) IN
  /\ c.own_log_end - c.own_log_start = k + n
  /\ \A i \in 1..k :
       LET e == log[own][c.own_log_start + i].event IN
       /\ e.requester = c.automaton.id
       /\ e.sub_automaton_name = Target(c.steps_taken, i)
       /\ e.result = c.steps_taken[i].result

\* C4 as stated: a completed composite run with k delegations appends
\* exactly k events to the (A, A's session) log, two in the scenario.
C4_Original ==
  \A c \in completed : (IsCore(c.automaton) /\ Normal(c)) => OwnLogGrowth(c, 0)

\* C4 amended: a completed composite run with k delegations appends exactly
\* k + 1 events to the (A, A's session) log: one per delegation, written by
\* the sub-automaton's wrapper as its requester copy, then A's own event;
\* three in the scenario.
C4_KPlusOne ==
  \A c \in completed :
    (IsCore(c.automaton) /\ Normal(c)) =>
      /\ OwnLogGrowth(c, 1)
      /\ log[OwnLog(c.automaton)][c.own_log_end].run = c.run

\* the scenario has completed and A's log has grown by three entries
C4_Witness ==
  \E c \in completed :
    /\ IsCore(c.automaton) /\ Normal(c)
    /\ Target(c.steps_taken, 1) = "write_file"
    /\ Len(c.steps_taken) = 2
    /\ c.own_log_end - c.own_log_start = 3

\* ----------------------------------------------------------------------- C5
\* C5: a run whose input validator reports the request invalid returns the
\* validator's message, writes one event (one entry in its own log, one in
\* the requester's), and makes no reflector call, no planner call, no
\* sub-automaton build and no sub-automaton run.
C5_ValidationShortCircuit ==
  /\ \A i \in 1..Len(stack) :
       stack[i].invalid =>
         /\ i = Len(stack)
         /\ stack[i].pc \in Post
         /\ ~stack[i].interrupted
         /\ stack[i].result = ValidatorMessage
         /\ stack[i].steps_taken = << >>
         /\ <<stack[i].nreflect, stack[i].nplan, stack[i].nbuild>> = <<0, 0, 0>>
         /\ LogLen(log, OwnLog(stack[i].automaton)) - stack[i].own_log_start
              = IF stack[i].pc = "save_req" THEN 1 ELSE 0
  /\ \A c \in completed :
       c.invalid =>
         /\ c.result = ValidatorMessage
         /\ c.steps_taken = << >>
         /\ c.own_log_end - c.own_log_start = 1
         /\ Cardinality(LinesOf(OwnLog(c.automaton), c.run)) = 1
         /\ Cardinality(LinesOf(RequesterLog(c.automaton), c.run)) = 1
         /\ \A i \in LinesOf(OwnLog(c.automaton), c.run) :
              log[OwnLog(c.automaton)][i].event.result = ValidatorMessage

\* the composite agent's validator rejected the host's request
C5_Witness ==
  \E c \in completed :
    /\ c.invalid
    /\ IsCore(c.automaton)
    /\ host_result = [kind |-> "returned", value |-> ValidatorMessage]

\* ----------------------------------------------------------------------- C6
C6_StandIn ==
  /\ \A f \in Frames :
       f.interrupted => f.pc \in Post /\ f.result = StandIn(f.automaton.name)
  /\ \A c \in completed :
       c.interrupted =>
         /\ c.result = StandIn(c.automaton.name)
         /\ \E i \in LinesOf(OwnLog(c.automaton), c.run) :
              log[OwnLog(c.automaton)][i].event.result = StandIn(c.automaton.name)
         /\ \E i \in LinesOf(RequesterLog(c.automaton), c.run) :
              log[RequesterLog(c.automaton)][i].event.result = StandIn(c.automaton.name)

\* the interruption is caught by the wrapper of the run whose runner executes
C6_Caught ==
  (Running /\ Top.pc \in RunnerPcs /\ ninterrupts' # ninterrupts) =>
    /\ Len(stack') = Len(stack)
    /\ host_result' = host_result
    /\ stack'[Len(stack)].pc = "save_own"
    /\ stack'[Len(stack)].interrupted
    /\ stack'[Len(stack)].result = StandIn(Top.automaton.name)

\* the parent's await returns the stand-in as the delegation's result
C6_ParentContinues ==
  (/\ Running /\ Len(stack) > 1 /\ Top.interrupted /\ Top.pc = "save_req"
   /\ ninterrupts' = ninterrupts) =>
    /\ Len(stack') = Len(stack) - 1
    /\ host_result' = host_result
    /\ stack'[Len(stack')].pc = "record"
    /\ stack'[Len(stack')].result = StandIn(Top.automaton.name)
    /\ ~stack'[Len(stack')].interrupted

\* C6: a KeyboardInterrupt raised while an automaton's runner executes makes
\* that run return the stand-in text, an event with that text is written to
\* both logs, nothing is raised to the requester, and a parent loop takes
\* the stand-in as the delegation's result and goes on.
C6_InterruptionSubstitution ==
  []C6_StandIn /\ [][C6_Caught /\ C6_ParentContinues]_vars

\* a delegated run was interrupted, and its parent has recorded the stand-in
\* as the step's result and is back at the reflect stage
C6_Witness ==
  /\ Running
  /\ Top.pc = "reflect"
  /\ ~Top.interrupted
  /\ Len(Top.steps_taken) = 1
  /\ \E c \in completed :
       /\ c.interrupted
       /\ c.automaton.requester_id = Top.automaton.id
       /\ Top.steps_taken[1].result = StandIn(c.automaton.name)

\* ----------------------------------------------------------------------- C7
\* the exceptions of the code that stand for ConfigurationError (missing
\* wiring) and for CapabilityNotFound (unknown capability name)
ConfigurationErrors ==
  {"ValueError: must have a finalize sub-automaton defined",
   "ValueError: Engine must be specified for builtin planner",
   "ValueError: Must specify engine for validator",
   "ValueError: Invalid runner name",
   "ValueError: requires the engine value in extra_args"}

CapabilityNotFoundErrors ==
  {"ValueError: Engine not part of builtin engines",
   "ValueError: Planner not part of builtin planners",
   "ValueError: Knowledge base not part of builtin knowledge bases",
   "ValueError: Validator not part of builtin validators",
   "ValueError: Validator not found"}

\* C7: whatever is raised to the host out of a run is a ConfigurationError
\* or a CapabilityNotFound; every other failure of a runner or a leaf
\* function (an unsupported function name among them) comes back as result
\* text.  An interruption that arrives outside every runner is left aside.
C7_OnlyFatalErrorsEscape ==
  host_result.kind = "raised" =>
    host_result.value \in
      ConfigurationErrors \cup CapabilityNotFoundErrors \cup {"KeyboardInterrupt"}

\* ----------------------------------------------------------------------- C8
\* C8: two builds of one automaton id under different requester contexts
\* give two instances whose own sessions differ.
C8_EdgeScopedSessions ==
  \A k1, k2 \in DOMAIN automata :
    (k1 # k2 /\ k1[1] = k2[1]) =>
      /\ automata[k1].obj # automata[k2].obj
      /\ automata[k1].session_id # automata[k2].session_id

\* ----------------------------------------------------------------------- C9
\* C9: per (id, requester session, requester id, location) one instance is
\* constructed, every later build returns it with the session generated at
\* the first build, and every run of it writes to the same (id, session) log.
C9_CachedInstance ==
  /\ nautomata = Cardinality(DOMAIN automata)
  /\ \A k \in DOMAIN automata : KeyOf(automata[k]) = k
  /\ \A k1, k2 \in DOMAIN automata : k1 # k2 => automata[k1].obj # automata[k2].obj
  /\ \A f \in Frames :
       /\ KeyOf(f.automaton) \in DOMAIN automata
       /\ automata[KeyOf(f.automaton)] = f.automaton
  /\ \A c \in completed :
       /\ KeyOf(c.automaton) \in DOMAIN automata
       /\ automata[KeyOf(c.automaton)] = c.automaton
       /\ LinesOf(OwnLog(automata[KeyOf(c.automaton)]), c.run) # {}

\* one sub-automaton has run for two delegations of the same parent run:
\* two instances exist, the parent and it, and both runs are in one log
C9_Witness ==
  \E c1, c2 \in completed :
    /\ c1.run < c2.run
    /\ c1.automaton = c2.automaton
    /\ c1.automaton.requester_id = "A"
    /\ nautomata = 2
    /\ LinesOf(OwnLog(c1.automaton), c1.run) # {}
    /\ LinesOf(OwnLog(c1.automaton), c2.run) # {}

\* ---------------------------------------------------------------------- C10
CapabilityCaches == {"planners", "reflectors", "knowledges", "validators"}
\* the keys of a cache whose value is an object a factory returned
Built(cache) == {k \in DOMAIN caps[cache] : ~IsNone(caps[cache][k])}
AllBuilt == {<<cache, k>> : cache \in {"engines"}, k \in Built("engines")} \cup
            UNION {{<<cache, k>> : k \in Built(cache)} : cache \in CapabilityCaches}
WiredKey(automaton_id, data) ==
  <<<<Location, automaton_id>>, data[1].name, data[1].engine>>

\* C10: every capability tuple is resolved by one factory call and every
\* later resolution returns that instance; the oracle of an (automaton
\* path, name) is constructed once and is the one held by every planner,
\* reflector, knowledge source and validator resolved at that path.
C10_MemoisedResolution ==
  /\ caps.nobj = Cardinality(AllBuilt)
  /\ \A x, y \in AllBuilt :
       x # y => caps[x[1]][x[2]][1].obj # caps[y[1]][y[2]][1].obj
  /\ \A cache \in CapabilityCaches : \A k \in Built(cache) :
       /\ <<k[1], k[3]>> \in DOMAIN caps.engines
       /\ caps[cache][k][1].engine = caps.engines[<<k[1], k[3]>>]
  /\ \A k \in DOMAIN automata :
       ~IsNone(automata[k].validate_input) =>
         LET key == WiredKey(k[1], automaton_yaml(world, k[1]).validator) IN
         key \in DOMAIN caps.validators /\ automata[k].validate_input = caps.validators[key]
  /\ \A r \in Frames \cup completed :
       ~IsNone(r.plan) =>
         LET key == WiredKey(r.automaton.id, automaton_yaml(world, r.automaton.id).planner) IN
         key \in DOMAIN caps.planners /\ r.plan = caps.planners[key]
  /\ \A f \in Frames :
       /\ ~IsNone(f.reflect) =>
            f.reflect = caps.reflectors[WiredKey(f.automaton.id,
                                                 automaton_yaml(world, f.automaton.id).reflector)]
       /\ ~IsNone(f.knowledge) =>
            f.knowledge = caps.knowledges[WiredKey(f.automaton.id,
                                                   automaton_yaml(world, f.automaton.id).knowledge)]

\* a second run of A has resolved its capabilities again and holds the
\* planner of the first run, whose oracle is the one its reflector holds
C10_Witness ==
  /\ Running
  /\ stack[1].pc = "reflect"
  /\ ~IsNone(stack[1].plan) /\ ~IsNone(stack[1].reflect)
  /\ ~IsNone(stack[1].plan[1].engine)
  /\ stack[1].plan[1].engine = stack[1].reflect[1].engine
  /\ \E c \in completed :
       /\ c.run # stack[1].run
       /\ IsCore(c.automaton)
       /\ c.plan = stack[1].plan

\* ---------------------------------------------------------------------- C11
\* C11: a composite agent whose definition wires a planner name that is
\* neither a ".py" file nor a builtin planner is never built (no handle is
\* returned or cached), and when the planner-not-found error is raised no
\* runner has started.
C11_UnknownPlannerFailsBuild ==
  /\ \A k \in DOMAIN automata :
       IsCore(automata[k]) =>
         \/ EndsWithPy(automaton_yaml(world, k[1]).planner[1].name)
         \/ automaton_yaml(world, k[1]).planner[1].name \in BUILTIN_PLANNERS
  /\ host_result = [kind |-> "raised",
                    value |-> "ValueError: Planner not part of builtin planners"]
       => nruns = 0

\* ---------------------------------------------------------------------- C12
DeclaredSubs(a) == Range(automaton_yaml(world, a.id).sub_automata)

\* C12: a run of a composite agent whose sub-automaton set lacks finalize
\* never reaches the first iteration: it makes no reflector call, no planner
\* call and no delegation (it is stopped by the configuration error, or by
\* an interruption, before the loop).
C12_MissingFinalizeFailsFast ==
  \A f \in Frames :
    (IsCore(f.automaton) /\ "finalize" \notin DeclaredSubs(f.automaton)) =>
      /\ f.pc \in {"run", "load"} \/ f.interrupted
      /\ <<f.nreflect, f.nplan, f.nbuild>> = <<0, 0, 0>>

\* ---------------------------------------------------------------------- C13
DeclaredNames(a) == {automaton_yaml(world, id).name : id \in DeclaredSubs(a)}
\* the completion names no declared sub-automaton, or cannot be parsed
Ambiguous(a, result) == ~result.matched \/ result.name \notin DeclaredNames(a)
CorrectiveMessages(a) ==
  {FormatMessage, NamesMessage(world, automaton_yaml(world, a.id).sub_automata)}

\* step i of run r is a delegation to think with a corrective message
CorrectiveStep(r, i) ==
  /\ IsCore(r.automaton)
  /\ Target(r.steps_taken, i) = "think"
  /\ r.steps_taken[i].planned_action.request \in CorrectiveMessages(r.automaton)

\* C13: with the react planner, a completion that cannot be parsed or that
\* names no declared sub-automaton does not fail the run: the planned action
\* is a delegation to think whose request is the corrective message, the
\* step recorded for it has that message as its result (the stand-in when
\* the think run was interrupted), and the run goes on: it returns only
\* after a finalize step.
C13_CorrectiveDelegation ==
  /\ (world = "react" /\ host_result.kind = "raised") =>
       host_result.value = "KeyboardInterrupt"
  /\ \A f \in Frames :
       (~IsNone(f.completion) /\ Ambiguous(f.automaton, f.completion[1])) =>
         /\ f.planned_action.automaton_id = "think"
         /\ f.planned_action.request \in CorrectiveMessages(f.automaton)
         /\ (f.planned_action.request = FormatMessage) <=> ~f.completion[1].matched
         /\ (f.pc = "record") => (f.result \in {f.planned_action.request, StandIn("Think")})
  /\ \A f \in Frames : \A i \in 1..Len(f.steps_taken) :
       CorrectiveStep(f, i) =>
         /\ f.steps_taken[i].result \in
              {f.steps_taken[i].planned_action.request, StandIn("Think")}
         /\ (i = Len(f.steps_taken) /\ ~f.interrupted) => (f.pc \notin Post)
  /\ \A c \in completed : \A i \in 1..Len(c.steps_taken) :
       CorrectiveStep(c, i) =>
         /\ c.steps_taken[i].result \in
              {c.steps_taken[i].planned_action.request, StandIn("Think")}
         /\ (i = Len(c.steps_taken)) => c.interrupted

\* the planner named no declared sub-automaton, think echoed the corrective
\* message into the step, and the loop is at its second iteration
C13_Witness ==
  /\ Running
  /\ Top.pc = "plan"
  /\ Len(Top.steps_taken) = 1
  /\ Top.steps_taken[1].planned_action =
       [automaton_id |-> "think",
        request |-> "The Sub-Automaton Name must be one of the following: ['\"Think\"', '\"Finalize Reply\"']"]
  /\ Top.steps_taken[1].result = Top.steps_taken[1].planned_action.request

\* ---------------------------------------------------------------------- C14
\* C14: whatever the runner kind, a run of an automaton that wires an input
\* validator calls the validator before the runner does anything else, and
\* an invalid verdict ends the run with the validator's text: a frame that
\* has left the start of its runner without interruption has been validated.
C14_ValidatorFirst ==
  \A f \in Frames :
    (~IsNone(f.automaton.validate_input) /\ f.pc # "run" /\ ~f.interrupted) =>
      /\ f.validated
      /\ f.invalid => (f.pc \in Post /\ f.result = ValidatorMessage)

\* ---------------------------------------------------------------------- C15
\* the sub-automaton runs a loop has started and not yet seen return
InFlight(f) == f.nbuild - Len(f.steps_taken)

\* C15: within one run of a core automaton at most one delegation is in
\* flight.  Every run below the innermost one is a loop waiting at its await
\* for exactly the run above it; a loop has started at most one run more
\* than it has recorded, and it has called its planner (and reflector) no
\* more often than once per recorded step plus the one in progress; when the
\* loop goes on to record, the run it waited for has returned.
C15_OneDelegationInFlight ==
  /\ \A i \in 1..(Len(stack) - 1) :
       /\ IsCore(stack[i].automaton)
       /\ stack[i].pc = "await"
       /\ stack[i + 1].automaton.id = stack[i].planned_action.automaton_id
       /\ stack[i + 1].request = stack[i].planned_action.request
  /\ \A f \in Frames :
       IsCore(f.automaton) =>
         /\ InFlight(f) \in {0, 1}
         /\ (InFlight(f) = 1 /\ ~f.interrupted) <=> (f.pc \in {"await", "record"})
         /\ f.nplan \in {Len(f.steps_taken), Len(f.steps_taken) + 1}
         /\ f.nreflect <= Len(f.steps_taken) + 1
         /\ f.pc \in {"reflect", "plan"} => f.nplan = f.nbuild
         /\ f.pc = "record" =>
              \E c \in completed :
                /\ c.run > f.run
                /\ c.automaton.id = f.planned_action.automaton_id
                /\ c.request = f.planned_action.request
                /\ c.result = f.result

\* a loop waits for its second delegation after the first one has returned
C15_Witness ==
  /\ Len(stack) = 2
  /\ stack[1].pc = "await"
  /\ Len(stack[1].steps_taken) = 1
  /\ stack[1].nbuild = 2
  /\ stack[2].pc = "run"

\* ---------------------------------------------------------------------- C16
\* the step is the wrapper's first (second) call of save_event
SaveOwnStep ==
  /\ Running
  /\ Top.pc = "save_own"
  /\ Len(stack') = Len(stack)
  /\ stack'[Len(stack)].pc = "save_req"

SaveRequesterStep ==
  /\ Running
  /\ Top.pc = "save_req"
  /\ completed' # completed

\* the logs after the step are the logs before it with one line at the end
\* of the log at log_path, every line written earlier where it was
AppendedTo(log_path, line) ==
  /\ DOMAIN log' = DOMAIN log \cup {log_path}
  /\ \A q \in DOMAIN log' :
       log'[q] = IF q # log_path THEN log[q]
                 ELSE IF log_path \in DOMAIN log THEN log[log_path] \o <<line>>
                 ELSE <<line>>

\* C16: within one (identifier, session) log the entries stand in the order
\* of the save_event calls for that log: every call adds exactly its event
\* as the last entry of its log and leaves all earlier entries of all logs as
\* they were, and no other step of the program changes a log.
C16_AppendInCallOrder ==
  [][IF SaveOwnStep
       THEN AppendedTo(OwnLog(Top.automaton),
                       [event |-> [requester |-> Top.automaton.requester_id,
                                   sub_automaton_name |-> Top.automaton.id,
                                   input |-> Top.request,
                                   result |-> Top.result,
                                   timestamp |-> generate_timestamp_id(clock)],
                        run |-> Top.run])
     ELSE IF SaveRequesterStep
       THEN AppendedTo(RequesterLog(Top.automaton), [event |-> Top.event[1], run |-> Top.run])
     ELSE log' = log]_vars

\* a log holds three entries of three runs, two of them with the same event
\* text, in the order their save_event calls were made
C16_Witness ==
  \E p \in DOMAIN log :
    /\ Len(log[p]) = 3
    /\ <<log[p][1].run, log[p][2].run, log[p][3].run>> = <<2, 3, 1>>
    /\ log[p][1].event = log[p][2].event

\* ---------------------------------------------------------------------- C17
\* the last entry of a log
LastLine(log_path) == log[log_path][Len(log[log_path])]

\* C17: every sub-automaton a loop builds is built with the loop's own
\* session as requester session and the loop's own id as requester id: the
\* run a loop waits for writes to the loop's own log as its requester log,
\* and when that run has returned its event is the newest entry of the
\* loop's own (id, session) log, with the loop's id as requester.
C17_ChildEventsInParentLog ==
  /\ \A i \in 1..(Len(stack) - 1) :
       /\ stack[i + 1].automaton.requester_id = stack[i].automaton.id
       /\ stack[i + 1].automaton.requester_session_id = stack[i].automaton.session_id
       /\ RequesterLog(stack[i + 1].automaton) = OwnLog(stack[i].automaton)
  /\ \A f \in Frames :
       f.pc = "record" =>
         /\ OwnLog(f.automaton) \in DOMAIN log
         /\ LastLine(OwnLog(f.automaton)).run > f.run
         /\ LastLine(OwnLog(f.automaton)).event.requester = f.automaton.id
         /\ LastLine(OwnLog(f.automaton)).event.sub_automaton_name = f.planned_action.automaton_id
         /\ LastLine(OwnLog(f.automaton)).event.input = f.planned_action.request
         /\ LastLine(OwnLog(f.automaton)).event.result = f.result
  /\ \A c \in completed :
       c.automaton.requester_id \notin (HostIds \cup OtherHostIds) =>
         \E i \in LinesOf(RequesterLog(c.automaton), c.run) :
           log[RequesterLog(c.automaton)][i].event.requester = c.automaton.requester_id

\* A's loop is about to record write_file's result, and write_file's event is
\* the newest entry of A's own log
C17_Witness ==
  /\ Running
  /\ Top.pc = "record"
  /\ Top.automaton.id = "A"
  /\ Top.planned_action.automaton_id = "write_file"
  /\ OwnLog(Top.automaton) \in DOMAIN log
  /\ LastLine(OwnLog(Top.automaton)).event.requester = "A"
  /\ LastLine(OwnLog(Top.automaton)).event.sub_automaton_name = "write_file"

\* ---------------------------------------------------------------------- C18
\* s is t with steps added at its end
IsPrefix(s, t) == Len(s) <= Len(t) /\ SubSeq(t, 1, Len(s)) = s

\* the run of frame i goes on in the next state
SameRun(i) == i <= Len(stack') /\ stack'[i].run = stack[i].run

\* C18: within one run the step history only grows at its end.  When the
\* planner is called for the n-th time the history holds the n - 1 steps
\* recorded so far (and so for the reflector, where one is wired); the i-th
\* step is the i-th delegation: it carries the result the i-th sub-automaton
\* run of this run returned; and a step, once recorded, stays as it is for
\* the rest of the run.
C18_HistoryAppendOnly ==
  [][/\ \A i \in 1..Len(stack) :
          SameRun(i) =>
            /\ IsPrefix(stack[i].steps_taken, stack'[i].steps_taken)
            /\ Len(stack'[i].steps_taken) <= Len(stack[i].steps_taken) + 1
            /\ (stack'[i].nplan = stack[i].nplan + 1) =>
                 /\ Len(stack[i].steps_taken) = stack[i].nplan
                 /\ stack'[i].steps_taken = stack[i].steps_taken
            /\ (stack'[i].nreflect = stack[i].nreflect + 1) =>
                 /\ Len(stack[i].steps_taken) = stack[i].nreflect
                 /\ stack'[i].steps_taken = stack[i].steps_taken
            /\ (Len(stack'[i].steps_taken) = Len(stack[i].steps_taken) + 1) =>
                 /\ stack[i].pc = "record"
                 /\ stack'[i].steps_taken[Len(stack'[i].steps_taken)] =
                      [reflection |-> stack[i].reflection,
                       plan_text |-> stack[i].action_text,
                       planned_action |-> stack[i].planned_action,
                       result |-> stack[i].result]
     /\ \A c \in completed' \ completed :
          /\ Running
          /\ c.run = Top.run
          /\ c.steps_taken = Top.steps_taken]_vars

\* the planner is about to be called for the third time, on a history of two
\* different steps in the order of their delegations
C18_Witness ==
  /\ Running
  /\ Top.pc = "plan"
  /\ Top.nplan = 2
  /\ Len(Top.steps_taken) = 2
  /\ Target(Top.steps_taken, 1) = "write_file"
  /\ Target(Top.steps_taken, 2) = "think"

\* ---------------------------------------------------------------------- C19
\* the ways a core automaton's run r comes to return a result: the newest
\* delegation went to finalize, or the wrapper put the stand-in in place of
\* an interruption; a request the validator turned down returns before the
\* loop is entered
EndedByFinalize(r) ==
  /\ r.steps_taken # << >>
  /\ Target(r.steps_taken, Len(r.steps_taken)) = "finalize"
  /\ r.result = r.steps_taken[Len(r.steps_taken)].result

EndedByStandIn(r) == r.interrupted /\ r.result = StandIn(r.automaton.name)

NeverEntered(r) == r.invalid /\ r.steps_taken = << >> /\ IsNone(r.plan)

InLoop(f) == f.pc \in {"reflect", "plan", "delegate", "await", "record"}

\* C19: the loop of a core automaton ends with a result only because the
\* delegated target was finalize or because the wrapper replaced an
\* interruption by the stand-in; the number of iterations made is no reason
\* to end: without a finalize step and without interruption a run that has
\* entered its loop is still in it, however many steps it has recorded, and
\* no such run has returned.
C19_NoIterationCap ==
  /\ \A f \in Frames :
       (IsCore(f.automaton) /\ f.pc \in Post) =>
         EndedByFinalize(f) \/ EndedByStandIn(f) \/ NeverEntered(f)
  /\ \A c \in completed :
       IsCore(c.automaton) =>
         EndedByFinalize(c) \/ EndedByStandIn(c) \/ NeverEntered(c)
  /\ \A f \in Frames :
       (IsCore(f.automaton) /\ ~IsNone(f.plan) /\ ~f.interrupted
          /\ ~HasFinalize(f.steps_taken)) => InLoop(f)
  /\ \A f \in Frames :
       (IsCore(f.automaton) /\ InLoop(f) /\ f.pc # "record") => ~HasFinalize(f.steps_taken)

\* a loop starts a further iteration after as many delegations as the bound
\* on runs lets it make, none of them to finalize
C19_Witness ==
  /\ Running
  /\ IsCore(Top.automaton)
  /\ Top.pc = "reflect"
  /\ Len(Top.steps_taken) = MaxRuns - 1
  /\ ~HasFinalize(Top.steps_taken)
  /\ ~Top.interrupted

\* ---------------------------------------------------------------------- C20
\* the definition of a core automaton declares finalize and, when it wires
\* the builtin react planner, think
WellFormedComposite(w, id) ==
  /\ "finalize" \in Range(automaton_yaml(w, id).sub_automata)
  /\ (automaton_yaml(w, id).planner[1].name = "react") =>
       ("think" \in Range(automaton_yaml(w, id).sub_automata))

\* C20: a core automaton whose definition lacks finalize, or lacks think
\* while wiring the react planner, is turned down when it is loaded: no
\* instance of it is cached or handed out, and so none of it ever runs.
C20_MalformedCompositeRejectedAtLoad ==
  /\ \A k \in DOMAIN automata :
       IsCore(automata[k]) => WellFormedComposite(world, k[1])
  /\ \A f \in Frames :
       IsCore(f.automaton) => WellFormedComposite(world, f.automaton.id)

\* ---------------------------------------------------------------------- C21
\* what the reflector call of an iteration leaves in the loop's reflection
ReflectionOf(f) == IF IsNone(f.reflect) THEN None ELSE Some(ReflectionLines)

\* the reflector calls made by a loop that is in its (k + 1)-th iteration
\* and has (not) reflected in it
Reflected(f, n) == f.nreflect = IF IsNone(f.reflect) THEN 0 ELSE n

\* C21: every iteration of the loop reflects (when a reflector is wired),
\* then plans, then builds and runs the chosen sub-automaton, then appends
\* one step.  A loop with k recorded steps is in iteration k + 1 and has made
\* the calls of that iteration up to its stage and no others; the reflection
\* the planner is given and the step stores is the one of this iteration,
\* and the result the step stores is the one this iteration's sub-automaton
\* run returned.
C21_IterationOrder ==
  /\ \A f \in Frames :
       (IsCore(f.automaton) /\ ~f.interrupted /\ InLoop(f)) =>
         LET k == Len(f.steps_taken) IN
         /\ f.pc = "reflect" => (Reflected(f, k) /\ f.nplan = k /\ f.nbuild = k)
         /\ f.pc = "plan" =>
              /\ Reflected(f, k + 1) /\ f.nplan = k /\ f.nbuild = k
              /\ f.reflection = ReflectionOf(f)
         /\ f.pc = "delegate" =>
              /\ Reflected(f, k + 1) /\ f.nplan = k + 1 /\ f.nbuild = k
              /\ f.reflection = ReflectionOf(f)
              /\ f.action_text = PlanText
         /\ f.pc \in {"await", "record"} =>
              /\ Reflected(f, k + 1) /\ f.nplan = k + 1 /\ f.nbuild = k + 1
              /\ f.reflection = ReflectionOf(f)
  /\ \A f \in Frames : \A i \in 1..Len(f.steps_taken) :
       /\ f.steps_taken[i].reflection = ReflectionOf(f)
       /\ f.steps_taken[i].plan_text = PlanText
       /\ \E c \in completed :
            /\ c.run > f.run
            /\ RequesterLog(c.automaton) = OwnLog(f.automaton)
            /\ c.automaton.id = Target(f.steps_taken, i)
            /\ c.request = f.steps_taken[i].planned_action.request
            /\ c.result = f.steps_taken[i].result

\* a loop with a reflector wired is about to record the step of its second
\* iteration, after two reflector calls, two planner calls and two builds
C21_Witness ==
  /\ Running
  /\ Top.pc = "record"
  /\ ~IsNone(Top.reflect)
  /\ Len(Top.steps_taken) = 1
  /\ <<Top.nreflect, Top.nplan, Top.nbuild>> = <<2, 2, 2>>
  /\ Top.reflection = Some(ReflectionLines)

\* ---------------------------------------------------------------------- C22
\* the event the wrapper records for run r of automaton a, up to its timestamp
EventOf(a, request, result, e) ==
  /\ e.requester = a.requester_id
  /\ e.sub_automaton_name = a.id
  /\ e.input = request
  /\ e.result = result

HostRuns == {c \in completed : c.automaton.requester_id \in HostIds \cup OtherHostIds}

\* C22: the event recorded for a run carries the requester id the automaton
\* was built under, the automaton's own id, the request as the run received
\* it and the text the run returns to its caller: every line a run wrote or
\* is about to write has these fields, whether the result came from the
\* runner, the validator or the interruption stand-in, and the caller (the
\* loop at its record stage, or the host) holds that same text.
C22_EventFields ==
  /\ \A f \in Frames :
       f.pc = "save_req" =>
         /\ EventOf(f.automaton, f.request, f.result, f.event[1])
         /\ \A i \in LinesOf(OwnLog(f.automaton), f.run) :
              log[OwnLog(f.automaton)][i].event = f.event[1]
  /\ \A c \in completed : \A p \in DOMAIN log : \A i \in LinesOf(p, c.run) :
       /\ EventOf(c.automaton, c.request, c.result, log[p][i].event)
       /\ c.invalid => log[p][i].event.result = ValidatorMessage
       /\ c.interrupted => log[p][i].event.result = StandIn(c.automaton.name)
  /\ \A f \in Frames :
       f.pc = "record" => LastLine(OwnLog(f.automaton)).event.result = f.result
  /\ host_result.kind = "returned" =>
       \E c \in HostRuns :
         /\ \A d \in HostRuns : d.run <= c.run
         /\ c.result = host_result.value
         /\ \A i \in LinesOf(OwnLog(c.automaton), c.run) :
              log[OwnLog(c.automaton)][i].event.result = host_result.value

\* a run whose request the validator turned down and a run that was
\* interrupted have both returned, each with its event recorded
C22_Witness ==
  /\ \E c \in completed :
       /\ c.invalid
       /\ \E i \in LinesOf(RequesterLog(c.automaton), c.run) :
            log[RequesterLog(c.automaton)][i].event.result = ValidatorMessage
  /\ \E c \in completed :
       /\ c.interrupted
       /\ \E i \in LinesOf(RequesterLog(c.automaton), c.run) :
            log[RequesterLog(c.automaton)][i].event.result = StandIn(c.automaton.name)

\* ---------------------------------------------------------------------- C23
\* C23: a capability that consults an oracle is never resolved without one:
\* when its wiring names no engine the resolution itself fails, so no cache
\* holds such a capability, builtin or custom, with the engine missing, and
\* no call of a resolved capability fails for want of its engine.
C23_MissingOracleFailsAtResolution ==
  /\ \A cache \in CapabilityCaches : \A k \in DOMAIN caps[cache] :
       (~IsNone(caps[cache][k]) /\ caps[cache][k][1].name \in OracleBacked) =>
         ~IsNone(caps[cache][k][1].engine)
  /\ host_result # [kind |-> "raised", value |-> "TypeError: NoneType object is not callable"]

\* ---------------------------------------------------------------------- C24
\* the errors whose message lists the builtin names of the kind
NamesBuiltinSet ==
  {"ValueError: Engine not part of builtin engines",
   "ValueError: Planner not part of builtin planners",
   "ValueError: Knowledge base not part of builtin knowledge bases",
   "ValueError: Validator not part of builtin validators"}

\* the step resolves, with a builtin engine wired, a name that is neither a
\* ".py" name nor a builtin of its kind
ResolvesUnknownName ==
  \E p \in ResolvePaths :
    \/ ResolveEngine(p, Some("gpt-5"))
    \/ ResolvePlanner(p, Wiring("nonexistent_planner", Some("gpt-4")))
    \/ ResolveReflector(p, Wiring("nonexistent_reflector", Some("gpt-4")))
    \/ ResolveKnowledge(p, Wiring("nonexistent_knowledge", Some("gpt-4")))
    \/ ResolveValidator(p, Wiring("nonexistent_validator", Some("gpt-4")))

\* C24: for every kind of capability (engine, knowledge source, reflector,
\* planner, validator) the resolution of a name that is neither custom nor
\* builtin fails with the same kind of error, one whose message names the
\* builtin set of the kind.
C24_UnknownNameError ==
  [][ResolvesUnknownName =>
       /\ host_result'.kind = "raised"
       /\ host_result'.value \in NamesBuiltinSet]_vars

\* ---------------------------------------------------------------------- C25
\* the entries of a capability cache made for the automaton id
CachedFor(cache, id) == {k \in DOMAIN caps[cache] : k[1] = <<Location, id>>}

\* the loop of r has resolved its capabilities (lines 70-76 are behind it)
PastLoad(r) == IsCore(r.automaton) /\ ~IsNone(r.plan)

\* C25: an absent wiring of a knowledge source, a reflector or a validator
\* resolves to None, no error, and leaves the cache of its kind as it was; a
\* core automaton without a reflector calls no reflector, and in every
\* iteration its planner is still called and the step is recorded, both
\* with the reflection None.
C25_AbsentWiringIsNone ==
  /\ \A k \in DOMAIN automata :
       IsNone(automaton_yaml(world, k[1]).validator) =>
         /\ IsNone(automata[k].validate_input)
         /\ CachedFor("validators", k[1]) = {}
  /\ \A f \in Frames :
       PastLoad(f) =>
         LET data == automaton_yaml(world, f.automaton.id) IN
         /\ IsNone(data.knowledge) =>
              (IsNone(f.knowledge) /\ CachedFor("knowledges", f.automaton.id) = {})
         /\ IsNone(data.reflector) =>
              /\ IsNone(f.reflect)
              /\ CachedFor("reflectors", f.automaton.id) = {}
              /\ \A i \in 1..Len(f.steps_taken) : f.steps_taken[i].reflection = None
  /\ \A c \in completed :
       (PastLoad(c) /\ IsNone(automaton_yaml(world, c.automaton.id).reflector)) =>
         \A i \in 1..Len(c.steps_taken) : c.steps_taken[i].reflection = None
  /\ \A f \in Frames :
       (PastLoad(f) /\ IsNone(automaton_yaml(world, f.automaton.id).reflector)) =>
         /\ f.nreflect = 0
         /\ f.reflection = None
         /\ ~f.interrupted => f.nplan >= Len(f.steps_taken)
         /\ f.pc \in {"delegate", "await", "record"} => f.nplan = Len(f.steps_taken) + 1

\* a loop without reflector, knowledge source and validator has recorded a
\* step with reflection None and has called its planner a second time
C25_Witness ==
  /\ Running
  /\ PastLoad(Top)
  /\ IsNone(automaton_yaml(world, Top.automaton.id).reflector)
  /\ IsNone(Top.knowledge) /\ IsNone(Top.automaton.validate_input)
  /\ Top.pc = "delegate"
  /\ Top.nplan = 2
  /\ Len(Top.steps_taken) = 1
  /\ Top.steps_taken[1].reflection = None
  /\ host_result.kind = "running"

\* ---------------------------------------------------------------------- C26
\* the definition of r's automaton wires an output validator
WiresOutputValidator(r) == ~IsNone(automaton_yaml(world, r.automaton.id).output_validator)

\* C26: when the output validator of an automaton reports the result of a
\* run invalid, the run does not raise and returns the validator's message
\* in place of that result: no run of an automaton with an output validator
\* hands a result the validator rejects to its caller or to the logs.
C26_OutputValidation ==
  /\ \A f \in Frames :
       (WiresOutputValidator(f) /\ f.pc \in Post) => f.result \notin RejectedOutputs
  /\ \A c \in completed :
       WiresOutputValidator(c) => c.result \notin RejectedOutputs

\* ---------------------------------------------------------------------- C27
\* the runs of both tasks
AllFrames == Range(stack) \cup Range(suspended)

\* the event loop changes task in this step
SwitchStep == stack' = suspended /\ suspended' = stack

\* every run has its own history: a loop holds as many steps as delegations
\* of its own have returned, whatever the other task has recorded
OwnHistory ==
  \A f \in AllFrames :
    IsCore(f.automaton) =>
      /\ Len(f.steps_taken) \in {f.nbuild - 1, f.nbuild}
      /\ f.pc \in {"reflect", "plan"} => Len(f.steps_taken) = f.nplan
      /\ f.pc \in {"load", "run"} => f.steps_taken = << >>

\* C27: when two runs are in progress at once, of different automata or of
\* the same Automaton, a step of one changes nothing of the other but the
\* caches and the event logs: the runs of the waiting task stay as they
\* are, and the history a run hands to its reflector and planner holds the
\* steps of its own delegations only.
C27_RunsShareOnlyCachesAndLogs ==
  /\ []OwnHistory
  /\ [][~SwitchStep => suspended' = suspended]_vars

\* two runs of the same Automaton are in progress; the first has recorded a
\* step and waits, the second is at its first planner call with no step
C27_Witness ==
  /\ Running
  /\ suspended # << >>
  /\ suspended[1].automaton = stack[1].automaton
  /\ Len(suspended[1].steps_taken) = 1
  /\ suspended[1].pc = "plan"
  /\ Top.pc = "plan"
  /\ Top.run > suspended[1].run
  /\ Top.steps_taken = << >>

\* ---------------------------------------------------------------------- C28
\* the callers of the cache's key
Callers(cache) == {i \in 1..Len(racers) : racers[i].cache = cache}

\* C28: when two calls for one cache key race, both finding the key absent
\* before either has stored its result, the cache is left with one instance
\* under the key, one of those the racing calls built, and every call that
\* looks the key up after the race is given that instance.
C28_RaceConverges ==
  \A cache \in RaceCaches :
    /\ (\E i \in Callers(cache) : racers[i].pc = "done") => Cached(cache)
    /\ Cached(cache) =>
         \E i \in Callers(cache) :
           racers[i].pc = "done" /\ racers[i].val = Retained(cache)
    /\ (Cached(cache) /\ InFlightBuilds(cache) = {}) =>
         \A i \in Callers(cache) : racers[i].settled => racers[i].val = Retained(cache)
    /\ \A i \in Callers(cache) :
         racers[i].settled => racers[i].pc = "done"

\* two calls raced and built an instance each; a third call, made after both
\* had stored, was given the one the cache retains
C28_Witness ==
  /\ Len(racers) = 3
  /\ \A i \in 1..3 : racers[i].cache = "automata" /\ racers[i].pc = "done"
  /\ ~racers[1].settled /\ ~racers[2].settled
  /\ racers[1].val # racers[2].val
  /\ racers[3].settled
  /\ racers[3].val = Retained("automata")
  /\ racers[3].val \in {racers[1].val, racers[2].val}

\* ---------------------------------------------------------------------- C29
\* C29: a definition is read from storage at most once per identifier: once
\* an identifier has been loaded its definition stays in the cache, however
\* many other identifiers are loaded after it, so every later load of it is
\* answered from the cache.
C29_DefinitionStaysCached ==
  data_cache # << >> =>
    \E i \in 1..Len(data_cache) : data_cache[i] = DefinitionPath(0)

\* ---------------------------------------------------------------------- C30
\* the (identifier, session) pair the step's save_event call is made for
SavedPair ==
  IF SaveOwnStep THEN <<Top.automaton.id, Top.automaton.session_id>>
  ELSE <<Top.automaton.requester_id, Top.automaton.requester_session_id>>

\* C30: recording an event for (identifier, session) changes only that
\* pair's log: after the call the pair has a log, created by the call when
\* there was none, with exactly one entry more than before, and every other
\* pair has the log it had before, or none if it had none.
C30_OnlyThatPairsLogChanges ==
  [][SaveOwnStep \/ SaveRequesterStep =>
       /\ SavedPair \in DOMAIN log'
       /\ LogLen(log', SavedPair) = LogLen(log, SavedPair) + 1
       /\ DOMAIN log' \ {SavedPair} = DOMAIN log \ {SavedPair}
       /\ \A other \in DOMAIN log \ {SavedPair} : log'[other] = log[other]]_vars

\* one log was created by its first write while another, written before it,
\* holds two entries or more and a third holds exactly one
C30_Witness ==
  \E created, appended, other \in DOMAIN log :
    /\ created # appended /\ created # other /\ appended # other
    /\ Len(log[created]) = 1
    /\ Len(log[other]) = 1
    /\ Len(log[appended]) >= 2
    /\ log[created][1].run > log[appended][1].run

\* ---------------------------------------------------------------------- C31
\* the entries a completed run c left in its automaton's own log, oldest first
OwnSegment(c) ==
  SubSeq(log[OwnLog(c.automaton)], c.own_log_start + 1, c.own_log_end)

\* the entries of a composite run's segment are its delegations' events, one
\* per delegation and in the order of the delegations, then its own event
ChildrenThenSelf(c) ==
  LET seg == OwnSegment(c)
      n == Len(seg) IN
  /\ n >= 1
  /\ seg[n].run = c.run
  /\ \A i \in 1..(n - 1) :
       /\ seg[i].run > c.run
       /\ seg[i].event.requester = c.automaton.id
       /\ \A j \in 1..(i - 1) : seg[j].run < seg[i].run
  /\ n - 1 >= Len(c.steps_taken)
  /\ \A i \in 1..Len(c.steps_taken) :
       /\ seg[i].event.sub_automaton_name = Target(c.steps_taken, i)
       /\ seg[i].event.input = c.steps_taken[i].planned_action.request
       /\ seg[i].event.result = c.steps_taken[i].result

\* an entry that is a requester's copy has its original in the log of the
\* automaton that ran
OwnCopyFirst ==
  \A p \in DOMAIN log : \A i \in 1..Len(log[p]) :
    log[p][i].event.requester = p[1] =>
      \E q \in DOMAIN log :
        /\ q[1] = log[p][i].event.sub_automaton_name
        /\ \E j \in 1..Len(log[q]) : log[q][j] = log[p][i]

\* C31: in a composite automaton's own log the events of a completed run's
\* delegations stand in delegation order, all of them before the event of
\* the run itself; and an event is in the sub-automaton's own log by the time
\* it is written to the parent's log.
C31_ChildEventsBeforeOwn ==
  /\ \A c \in completed : IsCore(c.automaton) => ChildrenThenSelf(c)
  /\ OwnCopyFirst

\* a composite run delegated to think and then to finalize; its log segment
\* is think's event, finalize's event, its own event
C31_Witness ==
  \E c \in completed :
    /\ IsCore(c.automaton)
    /\ Len(c.steps_taken) = 2
    /\ Len(OwnSegment(c)) = 3
    /\ OwnSegment(c)[1].event.sub_automaton_name = "think"
    /\ OwnSegment(c)[2].event.sub_automaton_name = "finalize"
    /\ OwnSegment(c)[3].event.sub_automaton_name = c.automaton.id

\* ---------------------------------------------------------------------- C32
\* the exception the innermost run's runner raises at its next statement,
\* where the state decides it: a leaf function that load_builtin_function
\* refuses, a composite automaton whose sub-automaton check fails
RunnerRaises ==
  IF Top.pc = "function"
    THEN load_builtin_function(Top.automaton.id, Top.automaton.name, Top.request).err
  ELSE IF /\ Top.pc = "run"
          /\ IsCore(Top.automaton)
          /\ "think" \notin Range(automaton_yaml(world, Top.automaton.id).sub_automata)
    THEN Some("ValueError: must have a finalize sub-automaton defined")
  ELSE None

\* the step is a runner raising an exception that is not KeyboardInterrupt
RaiseStep ==
  /\ Running
  /\ \/ ~IsNone(RunnerRaises) /\ ninterrupts' = ninterrupts
     \/ host_result'.kind = "raised" /\ host_result'.value # "KeyboardInterrupt"

\* no log holds an event of wrapper invocation run
Unrecorded(run) == \A p \in DOMAIN log : LinesOf(p, run) = {}

\* C32: when a runner raises an exception other than KeyboardInterrupt, the
\* exception leaves the wrapper of the run and the wrapper of every
\* enclosing run and reaches the host as raised; no log changes, and none of
\* these runs has an event in any log or is counted as returned.
C32_ExceptionRecordsNothing ==
  [][RaiseStep =>
       /\ stack' = << >>
       /\ host_result'.kind = "raised"
       /\ IsNone(RunnerRaises) \/ host_result'.value = RunnerRaises[1]
       /\ log' = log
       /\ completed' = completed
       /\ \A f \in Frames :
            /\ Unrecorded(f.run)
            /\ \A c \in completed : c.run # f.run]_vars

\* the leaf function of a delegated run raised: the exception is at the
\* host, the delegation before it is in the logs, and neither the run that
\* raised nor the composite run around it has an event anywhere
C32_Witness ==
  /\ ~Running
  /\ host_result = [kind |-> "raised",
                    value |-> "NotImplementedError: Unsupported function name"]
  /\ nruns = 3
  /\ ~Unrecorded(2)
  /\ Unrecorded(1)
  /\ Unrecorded(3)
  /\ \A c \in completed : c.run = 2

\* ---------------------------------------------------------------------- C33
\* the completed run whose event is the i-th entry run c left in its own log
DelegatedRun(c, i) == CHOOSE d \in completed : d.run = OwnSegment(c)[i].run

\* a run that was neither rejected nor interrupted itself and has delegated
\* to finalize: that delegation is its last, and its result is the text the
\* delegation returned
EndsAtFinalize(r) ==
  \A i \in 1..Len(r.steps_taken) :
    Target(r.steps_taken, i) = "finalize" =>
      /\ i = Len(r.steps_taken)
      /\ r.result = r.steps_taken[i].result

\* C33: the loop ends as soon as finalize was the delegated target, whatever
\* text that delegation returned: a run in the loop has no finalize step
\* behind it, and a returned composite run's result is the result of its
\* finalize run, which was its last delegation: the validator's message when
\* finalize's input validator rejected the request, the stand-in text when
\* the finalize run was interrupted.
C33_FinalizeEndsLoop ==
  /\ \A f \in Frames :
       (IsCore(f.automaton) /\ Normal(f)) =>
         /\ EndsAtFinalize(f)
         /\ HasFinalize(f.steps_taken) => f.pc \in Post
  /\ \A c \in completed :
       (IsCore(c.automaton) /\ Normal(c)) =>
         LET k == Len(c.steps_taken)
             d == DelegatedRun(c, k) IN
         /\ EndsAtFinalize(c)
         /\ Len(OwnSegment(c)) = k + 1
         /\ d.automaton.id = "finalize"
         /\ c.result = d.result
         /\ d.invalid => c.result = ValidatorMessage
         /\ d.interrupted => c.result = StandIn("Finalize Reply")

\* finalize's input validator rejected the request of the first delegation,
\* and the composite run returned the validator's message to the host
C33_Witness ==
  /\ host_result = [kind |-> "returned", value |-> ValidatorMessage]
  /\ \E c \in completed :
       /\ IsCore(c.automaton) /\ Normal(c)
       /\ Len(c.steps_taken) = 1
       /\ DelegatedRun(c, 1).invalid
       /\ DelegatedRun(c, 1).automaton.id = "finalize"

\* ---------------------------------------------------------------------- C34
\* the entry is the own copy of an event of instance a, in a's own log
OwnCopy(a, log_path, line) ==
  /\ line.event.sub_automaton_name = a.id
  /\ log_path = <<a.id, a.session_id>>

\* the entry is the requester's copy of an event of instance a, in the log
\* of the requester a was built under
RequesterCopy(a, log_path, line) ==
  /\ line.event.requester = a.requester_id
  /\ log_path = <<a.requester_id, a.requester_session_id>>

\* the instances that can have written the entry: the instance of the run
\* where the run is known, else the instances built so far
Writers(line) ==
  IF \E r \in Frames \cup completed : r.run = line.run
    THEN {r.automaton : r \in {q \in Frames \cup completed : q.run = line.run}}
    ELSE {automata[k] : k \in DOMAIN automata}

\* C34: in every reachable state every entry of the log of (X, s) is the
\* event of a run of an instance of X with own session s, or the event of a
\* run of a sub-automaton built with requester X and requester session s;
\* the log holds no other entry.
C34_LogHoldsOwnAndChildEvents ==
  \A p \in DOMAIN log : \A i \in 1..Len(log[p]) :
    /\ Writers(log[p][i]) # {}
    /\ \E a \in Writers(log[p][i]) :
         /\ log[p][i].event.sub_automaton_name = a.id
         /\ log[p][i].event.requester = a.requester_id
         /\ OwnCopy(a, p, log[p][i]) \/ RequesterCopy(a, p, log[p][i])

\* the log of the composite automaton holds a child's event and then an
\* event of its own, and the host's log holds the composite run's event only
C34_Witness ==
  \E p \in DOMAIN log, h \in DOMAIN log :
    /\ p[1] = "A" /\ h[1] \in HostIds
    /\ Len(log[p]) = 2
    /\ log[p][1].event.requester = "A"
    /\ log[p][2].event.sub_automaton_name = "A"
    /\ \A i \in 1..Len(log[h]) : log[h][i].event.sub_automaton_name = "A"

\* ---------------------------------------------------------------------- C35
\* two runs of one sub-automaton identifier requested by one instance
SameEdge(r1, r2) ==
  /\ r1.automaton.id = r2.automaton.id
  /\ r1.automaton.requester_id = r2.automaton.requester_id
  /\ r1.automaton.requester_session_id = r2.automaton.requester_session_id

OneChildInstance ==
  /\ \A r1, r2 \in Frames \cup completed :
       SameEdge(r1, r2) =>
         /\ r1.automaton.obj = r2.automaton.obj
         /\ r1.automaton.session_id = r2.automaton.session_id
  /\ \A c1, c2 \in completed :
       SameEdge(c1, c2) =>
         /\ LinesOf(OwnLog(c1.automaton), c1.run) # {}
         /\ LinesOf(OwnLog(c1.automaton), c2.run) # {}

\* an instance enters the builder's cache for the host, or for a loop at
\* the delegation to the sub-automaton its planner has just chosen
BuiltWhenChosen ==
  automata' # automata =>
    \E key \in DOMAIN automata' :
      /\ DOMAIN automata' = DOMAIN automata \cup {key}
      /\ key \notin DOMAIN automata
      /\ \A k \in DOMAIN automata : automata'[k] = automata[k]
      /\ IF Running
           THEN /\ Top.pc = "delegate"
                /\ key = AutomatonKey(Top.planned_action.automaton_id,
                                      Top.automaton.session_id, Top.automaton.id, Location)
           ELSE key[3] \in HostIds \cup OtherHostIds

InterruptedAtWrites ==
  /\ Running
  /\ Top.pc \in Post
  /\ ninterrupts' # ninterrupts

\* the interruption leaves the wrapper with nothing more written; it is
\* raised at the requester's await, inside the requester's try, or at the host
EscapesWrapper ==
  InterruptedAtWrites =>
    /\ Len(stack') = Len(stack) - 1
    /\ log' = log
    /\ completed' = completed
    /\ IF Len(stack) = 1
         THEN host_result' = [kind |-> "raised", value |-> "KeyboardInterrupt"]
         ELSE /\ host_result' = host_result
              /\ stack'[Len(stack')].interrupted
              /\ stack'[Len(stack')].pc = "save_own"
              /\ stack'[Len(stack')].result = StandIn(stack[Len(stack) - 1].automaton.name)
              /\ \A i \in 1..(Len(stack) - 2) : stack'[i] = stack[i]

\* a requester's copy of an event is in a log only for a run that returned
CopyOnlyOfReturnedRun ==
  \A p \in DOMAIN log : \A i \in 1..Len(log[p]) :
    log[p][i].event.requester = p[1] => \E c \in completed : c.run = log[p][i].run

\* C36: an interruption that arrives after a run's runner has returned and
\* before both log writes are done is not caught by that run's wrapper: it
\* goes to the requester's run (or the host), the interrupted run writes
\* nothing more, and so its event is in the automaton's own log and not in
\* the requester's, or in neither.
C36_InterruptDuringWritesEscapes ==
  []CopyOnlyOfReturnedRun /\ [][EscapesWrapper]_vars

\* a delegated run was interrupted between its two writes: its event is in
\* its own log and in no other, the run is gone, and its requester's run has
\* taken the interruption
C36_Witness ==
  /\ Running
  /\ Top.interrupted
  /\ Top.pc \in Post
  /\ \E p \in DOMAIN log : \E i \in 1..Len(log[p]) :
       /\ log[p][i].event.requester = Top.automaton.id
       /\ log[p][i].event.sub_automaton_name = p[1]
       /\ log[p][i].run > Top.run
       /\ \A c \in completed : c.run # log[p][i].run
       /\ \A q \in DOMAIN log \ {p} : LinesOf(q, log[p][i].run) = {}

\* ---------------------------------------------------------------------- C37
\* the display name the completion names is the name of a declared sub-automaton
NamesDeclared(sub_automata, result) ==
  \E i \in 1..Len(sub_automata) :
    automaton_yaml(world, sub_automata[i]).name = parse_result(result)[1]

\* C37: every action the react planner returns has a target that is one of
\* the sub-automata it was given: the planner returns an action only when
\* think is among them; the target is the sub-automaton whose display name
\* the completion names, with the request the completion gives, and think
\* when the completion names no sub-automaton given.
C37_TargetIsDeclared ==
  host_result.kind \in {"planned", "raised"} =>
    LET call == host_result.value IN
    /\ host_result.kind = "planned" <=> "think" \in Range(call.sub_automata)
    /\ host_result.kind = "planned" =>
         /\ call.action.automaton_id \in Range(call.sub_automata)
         /\ IF NamesDeclared(call.sub_automata, call.result)
              THEN /\ automaton_yaml(world, call.action.automaton_id).name
                        = parse_result(call.result)[1]
                   /\ call.action.request = parse_result(call.result)[2]
              ELSE call.action.automaton_id = "think"

\* the completion named "Bogus": the planner fell back to think, which was
\* declared after finalize
C37_Witness ==
  /\ host_result.kind = "planned"
  /\ host_result.value.sub_automata = <<"finalize", "think">>
  /\ host_result.value.result.name = "Bogus"
  /\ host_result.value.action.automaton_id = "think"

\* ---------------------------------------------------------------------- C38
\* the calls for the cache's key whose wrapped function raised
Failed(cache) == {i \in Callers(cache) : racers[i].pc = "raised"}

\* the calls that ran the wrapped function to its end and stored its result
Succeeded(cache) ==
  {i \in Callers(cache) : racers[i].pc = "done" /\ ~racers[i].settled /\ ~IsNone(racers[i].val)}

\* C38: a build or resolution that fails stores nothing under its key: the
\* key is cached only once a call has succeeded, and what it holds is an
\* instance a successful call built, never an empty or failed result; a call
\* that failed returns nothing, and while no call has succeeded the key stays
\* absent, so the next call runs the function again.
C38_FailureStoresNothing ==
  \A cache \in RaceCaches :
    /\ Cached(cache) =>
         /\ ~IsNone(Retained(cache))
         /\ \E i \in Callers(cache) :
              racers[i].pc = "done" /\ racers[i].val = Retained(cache)
         /\ \E i \in Callers(cache) :
              racers[i].pc \in {"store", "done"} /\ racers[i].val = Retained(cache)
                /\ ~racers[i].settled
    /\ \A i \in Failed(cache) : IsNone(racers[i].val) /\ ~racers[i].settled
    /\ \A i \in Callers(cache) :
         racers[i].pc = "done" => ~IsNone(racers[i].val) /\ Cached(cache)

\* the first build of the automaton failed, the second call ran the build
\* again and succeeded, and the third call was given the instance the second
\* had stored
C38_Witness ==
  /\ Len(racers) = 3
  /\ \A i \in 1..3 : racers[i].cache = "automata"
  /\ racers[1].pc = "raised"
  /\ racers[2].pc = "done" /\ ~racers[2].settled
  /\ racers[3].pc = "done" /\ racers[3].settled
  /\ racers[2].val = Retained("automata")
  /\ racers[3].val = racers[2].val

====
